---- MODULE Spec2Model ----
(***************************************************************************)
(* datafusion-statrs: scalar functions over probability distributions.     *)
(*                                                                         *)
(* The model follows the crate's layers: the statistics library's          *)
(* constructors (as documented by each distribution module), the parameter *)
(* factories, the per-row evaluators, the vectorized wrappers              *)
(* (invoke_with_args) and the registration helper.                         *)
(*                                                                         *)
(* Values.  A cell of an Arrow array is an Option: None is <<>> and        *)
(* Some(v) is <<v>>.  Float64 and UInt64 inputs are small integers, a     *)
(* Float64 input counted in quarters.  A Float64 output is a record naming *)
(* the library method that produced it, the distribution instance it was   *)
(* called on and the evaluation point; NaN is a distinguished output of    *)
(* the same shape.  LibValue gives the number such a record stands for, as *)
(* an exact fraction, for the distributions whose values are examined.     *)
(***************************************************************************)
EXTENDS Integers, Sequences, FiniteSets, TLC

VARIABLES
    ctor,       \* the arguments new() was called with to build udf
    udf,        \* the function object under invocation (a wrapper instance)
    call,       \* the latest invocation of udf: its arguments and its result
    prev,       \* the invocation before it, when call re-submitted its rows
    inv,        \* concurrent invocations of udf: slot -> local state
    registry,   \* session -> (function name -> installed descriptor)
    warnings,   \* the log: names passed to warn!, oldest first
    calls,      \* number of register calls made so far
    last        \* the latest register call: its inputs and its outcome

vars == <<ctor, udf, call, prev, inv, registry, warnings, calls, last>>

-----------------------------------------------------------------------------
(* Bounds *)

MaxLen == 2        \* rows in a batch
MaxSpecial == 2    \* cells of a batch that are null or not the plain value
MaxConcLen == 1    \* rows in a batch of a concurrent invocation
MaxConcSpecial == 1 \* such cells in a batch of a concurrent invocation
MaxCalls == 2      \* register calls in a behaviour

-----------------------------------------------------------------------------
(* Option, Result, f64 *)

None == <<>>
Some(v) == <<v>>
IsSome(o) == Len(o) = 1
Unwrap(o) == o[1]

NoDist == [dist |-> "", args |-> <<>>]
NaN == [stat |-> "NaN", d |-> NoDist, x |-> 0]

NoLibError == [type |-> "", kind |-> ""]
NoError == [variant |-> "", payload |-> NoLibError]
Ok(v) == [ok |-> TRUE, val |-> v, err |-> NoError]
Err(e) == [ok |-> FALSE, val |-> <<>>, err |-> e]
External(e) == [variant |-> "External", payload |-> e]

\* A Float64 value is held as its number of quarters (1 is 0.25, 4 is 1.0,
\* -5 is -1.25); a UInt64 value is held as itself.
Float64Values == {-1, 1}
UInt64Values == {0, 1}
ValuesOf(t) == IF t = "UInt64" THEN UInt64Values ELSE Float64Values
CellsOf(t) == {None} \cup {Some(v) : v \in ValuesOf(t)}

-----------------------------------------------------------------------------
(* The statistics library: constructors and methods *)

LibErr(t, k) == [ok |-> FALSE, val |-> NoDist, err |-> [type |-> t, kind |-> k]]
LibOk(dist, a) == [ok |-> TRUE, val |-> [dist |-> dist, args |-> a], err |-> NoLibError]

\* Exp::new(rate): 0 < rate
Exp_new(a) ==
    IF a[1] <= 0 THEN LibErr("ExpError", "RateInvalid")
    ELSE LibOk("Exp", a)

\* Dirac::new(v): every value the model draws is accepted
Dirac_new(a) ==
    LibOk("Dirac", a)

\* A constructor that checks the rate first.
Gamma_new_rate_first(a) ==
    IF a[2] <= 0 THEN LibErr("GammaError", "RateInvalid")
    ELSE IF a[1] <= 0 THEN LibErr("GammaError", "ShapeInvalid")
    ELSE LibOk("Gamma", a)

\* Gamma::new(shape, rate): 0 < shape, 0 < rate, the shape checked first
Gamma_new(a) ==
    IF a[1] <= 0 THEN LibErr("GammaError", "ShapeInvalid")
    ELSE IF a[2] <= 0 THEN LibErr("GammaError", "RateInvalid")
    ELSE LibOk("Gamma", a)

\* StudentsT::new(location, scale, freedom): 0 < scale, 0 < freedom
StudentsT_new(a) ==
    IF a[2] <= 0 THEN LibErr("StudentsTError", "ScaleInvalid")
    ELSE IF a[3] <= 0 THEN LibErr("StudentsTError", "FreedomInvalid")
    ELSE LibOk("StudentsT", a)

\* Chi::new(freedom): 0 < freedom
Chi_new(a) ==
    IF a[1] = 0 THEN LibErr("ChiError", "FreedomInvalid")
    ELSE LibOk("Chi", a)

\* Erlang::new(shape, rate): a Gamma, with its errors
Erlang_new(a) ==
    IF a[1] <= 0 THEN LibErr("GammaError", "ShapeInvalid")
    ELSE IF a[2] <= 0 THEN LibErr("GammaError", "RateInvalid")
    ELSE LibOk("Erlang", a)

\* A constructor that takes any probability.
Bernoulli_new_any(a) ==
    LibOk("Bernoulli", a)

\* Bernoulli::new(p): 0 <= p <= 1, a Binomial of one trial, with its error
Bernoulli_new(a) ==
    IF a[1] < 0 \/ a[1] > 4 THEN LibErr("BinomialError", "ProbabilityInvalid")
    ELSE LibOk("Bernoulli", a)

\* NegativeBinomial::new(r, p): 0 <= r, 0 <= p <= 1
NegativeBinomial_new(a) ==
    IF a[1] < 0 THEN LibErr("NegativeBinomialError", "RInvalid")
    ELSE IF a[2] < 0 \/ a[2] > 4 THEN LibErr("NegativeBinomialError", "PInvalid")
    ELSE LibOk("NegativeBinomial", a)

\* A constructor that wants the successes above the population.
Hypergeometric_new_reversed(a) ==
    IF a[1] > a[2] THEN LibErr("HypergeometricError", "TooManySuccesses")
    ELSE IF a[3] > a[1] THEN LibErr("HypergeometricError", "TooManyDraws")
    ELSE LibOk("Hypergeometric", a)

\* A constructor that checks the draws first.
Hypergeometric_new_draws_first(a) ==
    IF a[3] > a[1] THEN LibErr("HypergeometricError", "TooManyDraws")
    ELSE IF a[2] > a[1] THEN LibErr("HypergeometricError", "TooManySuccesses")
    ELSE LibOk("Hypergeometric", a)

\* Geometric::new(p): 0 < p <= 1, p in quarters
Geometric_new(a) ==
    IF a[1] <= 0 \/ a[1] > 4 THEN LibErr("GeometricError", "ProbabilityInvalid")
    ELSE LibOk("Geometric", a)

\* Hypergeometric::new(population, successes, draws): neither above the population
Hypergeometric_new(a) ==
    IF a[2] > a[1] THEN LibErr("HypergeometricError", "TooManySuccesses")
    ELSE IF a[3] > a[1] THEN LibErr("HypergeometricError", "TooManyDraws")
    ELSE LibOk("Hypergeometric", a)

\* Binomial::new(p, n): 0 <= p <= 1
Binomial_new(a) ==
    IF a[1] < 0 \/ a[1] > 4 THEN LibErr("BinomialError", "ProbabilityInvalid")
    ELSE LibOk("Binomial", a)

\* A constructor that takes any range.
Uniform_new_any(a) ==
    LibOk("Uniform", a)

\* Uniform::new(min, max): min < max
Uniform_new(a) ==
    IF a[1] >= a[2] THEN LibErr("UniformError", "MaxNotGreaterThanMin")
    ELSE LibOk("Uniform", a)

\* D::new(args): the validated instance, or the distribution's error.
LibNew(dist, a) ==
    CASE dist = "Exp" -> Exp_new(a)
      [] dist = "Dirac" -> Dirac_new(a)
      [] dist = "Gamma" -> Gamma_new(a)
      [] dist = "StudentsT" -> StudentsT_new(a)
      [] dist = "Chi" -> Chi_new(a)
      [] dist = "Erlang" -> Erlang_new(a)
      [] dist = "Bernoulli" -> Bernoulli_new(a)
      [] dist = "NegativeBinomial" -> NegativeBinomial_new(a)
      [] dist = "Hypergeometric" -> Hypergeometric_new(a)
      [] dist = "Binomial" -> Binomial_new(a)
      [] dist = "Uniform" -> Uniform_new(a)
      [] dist = "Geometric" -> Geometric_new(a)

\* d.pdf(x), d.pmf(x), d.cdf(x), d.sf(x): the library's value, kept symbolic.
LibStat(stat, d, x) == [stat |-> stat, d |-> d, x |-> x]

\* The number a library value stands for, as the exact fraction
\* <<numerator, denominator>> with a positive denominator.
RECURSIVE Pow(_, _)
Pow(b, e) == IF e = 0 THEN 1 ELSE b * Pow(b, e - 1)
RECURSIVE Binom(_, _)
Binom(n, k) ==
    IF k < 0 \/ k > n THEN 0
    ELSE IF k = 0 THEN 1
    ELSE (Binom(n - 1, k - 1) * n) \div k

\* Binomial(p, n).pmf(x) = C(n, x) p^x (1 - p)^(n - x), p in quarters
Binomial_pmf(p, n, x) ==
    IF x > n THEN <<0, 1>>
    ELSE <<Binom(n, x) * Pow(p, x) * Pow(4 - p, n - x), Pow(4, n)>>
RECURSIVE Binomial_sum(_, _, _)
Binomial_sum(p, n, x) ==
    IF x < 0 THEN 0
    ELSE Binomial_pmf(p, n, x)[1] + Binomial_sum(p, n, x - 1)
\* Binomial(p, n).cdf(x) = P(X <= x)
Binomial_cdf(p, n, x) ==
    IF x >= n THEN <<1, 1>> ELSE <<Binomial_sum(p, n, x), Pow(4, n)>>
\* Binomial(p, n).sf(x) = P(X > x)
Binomial_sf(p, n, x) ==
    LET c == Binomial_cdf(p, n, x) IN <<c[2] - c[1], c[2]>>

\* Uniform(min, max).pdf(x) = 1 / (max - min) on [min, max], all in quarters
Uniform_pdf(min, max, x) ==
    IF x < min \/ x > max THEN <<0, 1>> ELSE <<4, max - min>>

\* Hypergeometric(N, K, n).pmf(k) = C(K, k) C(N - K, n - k) / C(N, n)
Hypergeometric_pmf(N, K, n, k) ==
    IF k > n THEN <<0, 1>>
    ELSE <<Binom(K, k) * Binom(N - K, n - k), Binom(N, n)>>

\* Geometric(p).pmf(x) = (1 - p)^(x - 1) p for x >= 1 and 0 for x = 0, p in quarters
Geometric_pmf(p, x) ==
    IF x = 0 THEN <<0, 1>> ELSE <<Pow(4 - p, x - 1) * p, Pow(4, x)>>

\* The number of the library value v of these distributions.
LibValue(v) ==
    LET a == v.d.args
    IN  CASE v.d.dist = "Binomial" /\ v.stat = "pmf" -> Binomial_pmf(a[1], a[2], v.x)
          [] v.d.dist = "Binomial" /\ v.stat = "cdf" -> Binomial_cdf(a[1], a[2], v.x)
          [] v.d.dist = "Binomial" /\ v.stat = "sf" -> Binomial_sf(a[1], a[2], v.x)
          [] v.d.dist = "Bernoulli" /\ v.stat = "pmf" -> Binomial_pmf(a[1], 1, v.x)
          [] v.d.dist = "Bernoulli" /\ v.stat = "cdf" -> Binomial_cdf(a[1], 1, v.x)
          [] v.d.dist = "Bernoulli" /\ v.stat = "sf" -> Binomial_sf(a[1], 1, v.x)
          [] v.d.dist = "Uniform" /\ v.stat = "pdf" -> Uniform_pdf(a[1], a[2], v.x)
          [] v.d.dist = "Hypergeometric" /\ v.stat = "pmf" ->
                Hypergeometric_pmf(a[1], a[2], a[3], v.x)
          [] v.d.dist = "Geometric" /\ v.stat = "pmf" -> Geometric_pmf(a[1], v.x)

-----------------------------------------------------------------------------
(* Parameter factories *)

\* A factory that hands make's parameters to D::new in the order it got them.
FactoryArgs_same_order(D, p) == p

\* The order in which the factory of D hands make's parameters to D::new:
\* Factory1U1F for Binomial is Binomial::new(p2, p1), every other factory
\* keeps the order.
FactoryArgs(D, p) == IF D = "Binomial" THEN <<p[2], p[1]>> ELSE p

\* A factory that reports the rejection under an error of its own.
make_relabel(D, p) ==
    LET r == LibNew(D, FactoryArgs(D, p))
    IN  IF r.ok THEN Ok(r.val)
        ELSE Err([variant |-> "Execution", payload |-> [type |-> "", kind |-> "invalid parameters"]])

\* FactoryNF::make for D: D::new(..).map_err(|e| External(Box::new(e)))
make(D, p) ==
    LET r == LibNew(D, FactoryArgs(D, p))
    IN  IF r.ok THEN Ok(r.val) ELSE Err(External(r.err))

\* Factory1F1U for Binomial: make(p1: f64, p2: u64) is Binomial::new(p1, p2)
\* wrapped like every other factory.
Factory1F1U_make(D, p) ==
    LET r == LibNew(D, <<p[1], p[2]>>)
    IN  IF r.ok THEN Ok(r.val) ELSE Err(External(r.err))

-----------------------------------------------------------------------------
(* Evaluators *)

Method(kind) ==
    CASE kind = "Pdf" -> "pdf"
      [] kind = "Pmf" -> "pmf"
      [] kind = "Cdf" -> "cdf"
      [] kind = "Sf" -> "sf"

\* An evaluator that swallows the construction error.
eval_swallow(E, x, p) ==
    LET d == make(E.D, p)
    IN  IF ~d.ok THEN Ok(Some(NaN))
        ELSE Ok(Some(LibStat(Method(E.kind), d.val, x)))

\* An evaluator that answers rejected parameters with a null.
eval_rejected_null(E, x, p) ==
    LET d == make(E.D, p)
    IN  IF ~d.ok THEN Ok(None)
        ELSE Ok(Some(LibStat(Method(E.kind), d.val, x)))

\* An evaluator that also rejects the evaluation point 0.
eval_point_checked(E, x, p) ==
    LET d == make(E.D, p)
    IN  IF ~d.ok THEN Err(d.err)
        ELSE IF x = 0 THEN Err(External([type |-> "DomainError", kind |-> "PointInvalid"]))
        ELSE Ok(Some(LibStat(Method(E.kind), d.val, x)))

\* <Kind>EvaluatorN<D>::eval(x, p..): let d = D::make(p..)?; Ok(Some(d.<stat>(x)))
eval(E, x, p) ==
    LET d == make(E.D, p)
    IN  IF ~d.ok THEN Err(d.err)
        ELSE Ok(Some(LibStat(Method(E.kind), d.val, x)))

-----------------------------------------------------------------------------
(* Function descriptors (the wrappers' constructors and accessors) *)

uniform(n, types, vol) == [kind |-> "Uniform", n |-> n, types |-> types, volatility |-> vol]
exact(types, vol) == [kind |-> "Exact", n |-> Len(types), types |-> types, volatility |-> vol]

\* A constructor that declares the mixed-type wrappers as uniform over both
\* types and nothing else.
new_loose(W, E, n) ==
    [ name |-> n,
      signature |-> uniform(IF W \in {"Continuous4F", "Discrete4U"} THEN 4
                            ELSE IF W \in {"Continuous2F", "Continuous1F1U", "Discrete1U1F"} THEN 2
                            ELSE 3,
                            <<"Float64", "UInt64">>, "Immutable"),
      W |-> W,
      E |-> E ]

\* The wrappers: the signature new() declares and, per argument position,
\* the array type invoke_with_args casts to.
Continuous2F ==
    [ wrapper |-> "Continuous2F",
      signature |-> uniform(2, <<"Float64">>, "Immutable"),
      casts |-> <<"Float64", "Float64">> ]
Continuous3F ==
    [ wrapper |-> "Continuous3F",
      signature |-> uniform(3, <<"Float64">>, "Immutable"),
      casts |-> <<"Float64", "Float64", "Float64">> ]
Continuous4F ==
    [ wrapper |-> "Continuous4F",
      signature |-> uniform(4, <<"Float64">>, "Immutable"),
      casts |-> <<"Float64", "Float64", "Float64", "Float64">> ]
Continuous1F1U ==
    [ wrapper |-> "Continuous1F1U",
      signature |-> exact(<<"Float64", "UInt64">>, "Immutable"),
      casts |-> <<"Float64", "UInt64">> ]
Continuous1F1U1F ==
    [ wrapper |-> "Continuous1F1U1F",
      signature |-> exact(<<"Float64", "UInt64", "Float64">>, "Immutable"),
      casts |-> <<"Float64", "UInt64", "Float64">> ]
Discrete1U1F ==
    [ wrapper |-> "Discrete1U1F",
      signature |-> exact(<<"UInt64", "Float64">>, "Immutable"),
      casts |-> <<"UInt64", "Float64">> ]
Discrete1U2F ==
    [ wrapper |-> "Discrete1U2F",
      signature |-> exact(<<"UInt64", "Float64", "Float64">>, "Immutable"),
      casts |-> <<"UInt64", "Float64", "Float64">> ]
Discrete4U ==
    [ wrapper |-> "Discrete4U",
      signature |-> uniform(4, <<"UInt64">>, "Immutable"),
      casts |-> <<"UInt64", "UInt64", "UInt64", "UInt64">> ]

Discrete2U1F ==
    [ wrapper |-> "Discrete2U1F",
      signature |-> exact(<<"UInt64", "UInt64", "Float64">>, "Immutable"),
      casts |-> <<"UInt64", "UInt64", "Float64">> ]

Wrappers ==
    { Continuous2F, Continuous3F, Continuous4F, Continuous1F1U, Continuous1F1U1F,
      Discrete1U1F, Discrete1U2F, Discrete2U1F, Discrete4U }
Wrapper(W) == CHOOSE w \in Wrappers : w.wrapper = W

\* W::<E>::new(name)
new(W, E, n) == [name |-> n, signature |-> Wrapper(W).signature, W |-> W, E |-> E]

name(f) == f.name
signature(f) == f.signature
\* return_type(&self, _arg_types): Ok(Float64), whatever the argument types
return_type(f, arg_types) == Ok("Float64")

\* The argument type lists a call site may have under a signature: Exact is
\* the list itself; Uniform(n, types) is n arguments of one of the types.
AcceptedArgTypes(sig) ==
    IF sig.kind = "Exact" THEN {sig.types}
    ELSE {[i \in 1..sig.n |-> sig.types[k]] : k \in 1..Len(sig.types)}

-----------------------------------------------------------------------------
(* Vectorized wrappers: invoke_with_args *)

Array(t, cells) == [kind |-> "Array", type |-> t, cells |-> cells]
Scalar(t, cell) == [kind |-> "Scalar", type |-> t, cells |-> <<cell>>]

Panic(msg) == Err([variant |-> "panic", payload |-> [type |-> "", kind |-> msg]])
Internal(msg) == [variant |-> "Internal", payload |-> [type |-> "", kind |-> msg]]

\* A conversion that turns a scalar into an array of one row, whatever the
\* length of the batch.
values_to_arrays_one_row(args) ==
    LET arrays == {i \in 1..Len(args) : args[i].kind = "Array"}
        lens == {Len(args[i].cells) : i \in arrays}
    IN  IF Cardinality(lens) > 1
        THEN Err(Internal("Arguments has mixed length"))
        ELSE Ok([i \in 1..Len(args) |-> Array(args[i].type, args[i].cells)])

\* A conversion that puts a scalar's value in the first row only and nulls
\* in the rows after it.
values_to_arrays_first_row(args) ==
    LET arrays == {i \in 1..Len(args) : args[i].kind = "Array"}
        lens == {Len(args[i].cells) : i \in arrays}
        n == IF lens = {} THEN 1 ELSE CHOOSE l \in lens : TRUE
    IN  IF Cardinality(lens) > 1
        THEN Err(Internal("Arguments has mixed length"))
        ELSE Ok([i \in 1..Len(args) |->
                   IF args[i].kind = "Array" THEN args[i]
                   ELSE Array(args[i].type,
                              [j \in 1..n |-> IF j = 1 THEN args[i].cells[1] ELSE None])])

\* A conversion that expands the scalars and never compares the lengths of
\* the arrays.
values_to_arrays_unchecked(args) ==
    LET arrays == {i \in 1..Len(args) : args[i].kind = "Array"}
        lens == {Len(args[i].cells) : i \in arrays}
        n == IF lens = {} THEN 1 ELSE CHOOSE l \in lens : \A k \in lens : k <= l
    IN  Ok([i \in 1..Len(args) |->
              IF args[i].kind = "Array" THEN args[i]
              ELSE Array(args[i].type, [j \in 1..n |-> args[i].cells[1]])])

\* ColumnarValue::values_to_arrays: scalars are expanded to the arrays' length
\* (one row when every argument is a scalar); arrays of different lengths are
\* an internal error.
values_to_arrays(args) ==
    LET arrays == {i \in 1..Len(args) : args[i].kind = "Array"}
        lens == {Len(args[i].cells) : i \in arrays}
        n == IF lens = {} THEN 1 ELSE CHOOSE l \in lens : TRUE
    IN  IF Cardinality(lens) > 1
        THEN Err(Internal("Arguments has mixed length"))
        ELSE Ok([i \in 1..Len(args) |->
                   IF args[i].kind = "Array" THEN args[i]
                   ELSE Array(args[i].type, [j \in 1..n |-> args[i].cells[1]])])

\* The casts of invoke_with_args: as_float64_array / as_uint64_array per position.
CastTypes(W) == Wrapper(W).casts

Min(S) == CHOOSE m \in S : \A k \in S : m <= k

\* A zip that stops one row early.
zip_short(arrays) ==
    LET n == Min({Len(arrays[k].cells) : k \in 1..Len(arrays)})
    IN  [i \in 1..(IF n = 0 THEN 0 ELSE n - 1) |->
            [k \in 1..Len(arrays) |-> arrays[k].cells[i]]]

\* A zip that restarts the parameter iterators at every row.
zip_first(arrays) ==
    LET n == Min({Len(arrays[k].cells) : k \in 1..Len(arrays)})
    IN  [i \in 1..n |->
            [k \in 1..Len(arrays) |-> arrays[k].cells[IF k = 1 THEN i ELSE 1]]]

\* x_array.iter().zip(p1_array)...: row i holds the i-th cell of every array,
\* up to the shortest array.
zip(arrays) ==
    LET n == Min({Len(arrays[k].cells) : k \in 1..Len(arrays)})
    IN  [i \in 1..n |-> [k \in 1..Len(arrays) |-> arrays[k].cells[i]]]

\* A closure that validates the parameters of a row whenever they are all
\* present, whether or not the evaluation point is.
map_row_validating(f, row) ==
    IF \A k \in 1..Len(row) : IsSome(row[k])
    THEN eval(f.E, Unwrap(row[1]), [k \in 1..(Len(row) - 1) |-> Unwrap(row[k + 1])])
    ELSE IF (\A k \in 2..Len(row) : IsSome(row[k]))
            /\ ~make(f.E.D, [k \in 1..(Len(row) - 1) |-> Unwrap(row[k + 1])]).ok
         THEN Err(make(f.E.D, [k \in 1..(Len(row) - 1) |-> Unwrap(row[k + 1])]).err)
         ELSE Ok(Some(NaN))

\* A closure that passes the null on.
map_row_null(f, row) ==
    IF \A k \in 1..Len(row) : IsSome(row[k])
    THEN eval(f.E, Unwrap(row[1]), [k \in 1..(Len(row) - 1) |-> Unwrap(row[k + 1])])
    ELSE Ok(None)

\* The closure of .map(): the evaluator on a row whose values are all
\* present, not-a-number otherwise.
map_row(f, row) ==
    IF \A k \in 1..Len(row) : IsSome(row[k])
    THEN eval(f.E, Unwrap(row[1]), [k \in 1..(Len(row) - 1) |-> Unwrap(row[k + 1])])
    ELSE Ok(Some(NaN))

\* .collect::<Result<Float64Array, DataFusionError>>(): the items in order,
\* until the first error, which is returned in place of the array.
RECURSIVE collect(_, _, _, _)
collect(f, rows, i, acc) ==
    IF i > Len(rows) THEN Ok(acc)
    ELSE LET r == map_row(f, rows[i])
         IN  IF r.ok THEN collect(f, rows, i + 1, Append(acc, r.val))
             ELSE Err(r.err)

\* invoke_with_args up to the iterator: values_to_arrays(..)?, the casts with
\* .expect("cast failed"), the assert_eq! on the lengths, and the zip.
zipped(f, args) ==
    LET a == values_to_arrays(args)
        types == CastTypes(f.W)
    IN  IF ~a.ok THEN Err(a.err)
        ELSE IF Len(a.val) < Len(types) THEN Panic("index out of bounds")
        ELSE IF \E k \in 1..Len(types) : a.val[k].type # types[k]
             THEN Panic("cast failed")
        ELSE IF \E k \in 2..Len(types) : Len(a.val[1].cells) # Len(a.val[k].cells)
             THEN Panic("assertion failed")
        ELSE Ok(zip(SubSeq(a.val, 1, Len(types))))

invoke_with_args(f, args) ==
    LET z == zipped(f, args)
    IN  IF ~z.ok THEN Err(z.err) ELSE collect(f, z.val, 1, <<>>)

-----------------------------------------------------------------------------
(* Distribution modules: the constructors pdf(), cdf(), ... of each module   *)
(* and the list its register passes on, in order                            *)

Ctor(W, kind, D, n) == [W |-> W, E |-> [kind |-> kind, D |-> D], name |-> n]

\* distribution::bernoulli: the constructors, in the order of the list register builds
bernoulli ==
    << Ctor("Discrete1U1F", "Pmf", "Bernoulli", "bernoulli_pmf"),
       Ctor("Discrete1U1F", "LnPmf", "Bernoulli", "bernoulli_ln_pmf"),
       Ctor("Discrete1U1F", "Cdf", "Bernoulli", "bernoulli_cdf"),
       Ctor("Discrete1U1F", "Sf", "Bernoulli", "bernoulli_sf") >>

\* A module that binds binomial_cdf to the Sf evaluator and binomial_sf to
\* the Cdf evaluator.
binomial_crossed ==
    << Ctor("Discrete2U1F", "Pmf", "Binomial", "binomial_pmf"),
       Ctor("Discrete2U1F", "LnPmf", "Binomial", "binomial_ln_pmf"),
       Ctor("Discrete2U1F", "Sf", "Binomial", "binomial_cdf"),
       Ctor("Discrete2U1F", "Cdf", "Binomial", "binomial_sf") >>

\* distribution::binomial: the constructors, in the order of the list register builds
binomial ==
    << Ctor("Discrete2U1F", "Pmf", "Binomial", "binomial_pmf"),
       Ctor("Discrete2U1F", "LnPmf", "Binomial", "binomial_ln_pmf"),
       Ctor("Discrete2U1F", "Cdf", "Binomial", "binomial_cdf"),
       Ctor("Discrete2U1F", "Sf", "Binomial", "binomial_sf") >>

\* distribution::chi: the constructors, in the order of the list register builds
chi ==
    << Ctor("Continuous1F1U", "Pdf", "Chi", "chi_pdf"),
       Ctor("Continuous1F1U", "LnPdf", "Chi", "chi_ln_pdf"),
       Ctor("Continuous1F1U", "Cdf", "Chi", "chi_cdf"),
       Ctor("Continuous1F1U", "Sf", "Chi", "chi_sf") >>

\* distribution::dirac: the constructors, in the order of the list register builds
dirac ==
    << Ctor("Continuous2F", "Cdf", "Dirac", "dirac_cdf"),
       Ctor("Continuous2F", "Sf", "Dirac", "dirac_sf") >>

\* distribution::erlang: the constructors, in the order of the list register builds
erlang ==
    << Ctor("Continuous1F1U1F", "Pdf", "Erlang", "erlang_pdf"),
       Ctor("Continuous1F1U1F", "LnPdf", "Erlang", "erlang_ln_pdf"),
       Ctor("Continuous1F1U1F", "Cdf", "Erlang", "erlang_cdf"),
       Ctor("Continuous1F1U1F", "Sf", "Erlang", "erlang_sf") >>

\* distribution::exp: the constructors, in the order of the list register builds
exp ==
    << Ctor("Continuous2F", "Pdf", "Exp", "exp_pdf"),
       Ctor("Continuous2F", "LnPdf", "Exp", "exp_ln_pdf"),
       Ctor("Continuous2F", "Cdf", "Exp", "exp_cdf"),
       Ctor("Continuous2F", "Sf", "Exp", "exp_sf") >>

\* distribution::gamma: the constructors, in the order of the list register builds
gamma ==
    << Ctor("Continuous3F", "Pdf", "Gamma", "gamma_pdf"),
       Ctor("Continuous3F", "LnPdf", "Gamma", "gamma_ln_pdf"),
       Ctor("Continuous3F", "Cdf", "Gamma", "gamma_cdf"),
       Ctor("Continuous3F", "Sf", "Gamma", "gamma_sf") >>

\* distribution::hypergeometric: the constructors, in the order of the list register builds
hypergeometric ==
    << Ctor("Discrete4U", "Pmf", "Hypergeometric", "hypergeometric_pmf"),
       Ctor("Discrete4U", "LnPmf", "Hypergeometric", "hypergeometric_ln_pmf"),
       Ctor("Discrete4U", "Cdf", "Hypergeometric", "hypergeometric_cdf"),
       Ctor("Discrete4U", "Sf", "Hypergeometric", "hypergeometric_sf") >>

\* A module whose log-mass function carries the name of its mass function.
negative_binomial_misnamed ==
    << Ctor("Discrete1U2F", "Pmf", "NegativeBinomial", "negative_binomial_pmf"),
       Ctor("Discrete1U2F", "LnPmf", "NegativeBinomial", "negative_binomial_pmf"),
       Ctor("Discrete1U2F", "Cdf", "NegativeBinomial", "negative_binomial_cdf"),
       Ctor("Discrete1U2F", "Sf", "NegativeBinomial", "negative_binomial_sf") >>

\* distribution::negative_binomial: the constructors, in the order of the list register builds
negative_binomial ==
    << Ctor("Discrete1U2F", "Pmf", "NegativeBinomial", "negative_binomial_pmf"),
       Ctor("Discrete1U2F", "LnPmf", "NegativeBinomial", "negative_binomial_ln_pmf"),
       Ctor("Discrete1U2F", "Cdf", "NegativeBinomial", "negative_binomial_cdf"),
       Ctor("Discrete1U2F", "Sf", "NegativeBinomial", "negative_binomial_sf") >>

\* distribution::students_t: the constructors, in the order of the list register builds
students_t ==
    << Ctor("Continuous4F", "Pdf", "StudentsT", "students_t_pdf"),
       Ctor("Continuous4F", "LnPdf", "StudentsT", "students_t_ln_pdf"),
       Ctor("Continuous4F", "Cdf", "StudentsT", "students_t_cdf"),
       Ctor("Continuous4F", "Sf", "StudentsT", "students_t_sf") >>

\* distribution::uniform: the constructors, in the order of the list register builds
uniform_ ==
    << Ctor("Continuous3F", "Pdf", "Uniform", "uniform_pdf"),
       Ctor("Continuous3F", "LnPdf", "Uniform", "uniform_ln_pdf"),
       Ctor("Continuous3F", "Cdf", "Uniform", "uniform_cdf"),
       Ctor("Continuous3F", "Sf", "Uniform", "uniform_sf") >>

\* distribution::beta: the constructors, in the order of the list register builds
beta ==
    << Ctor("Continuous3F", "Pdf", "Beta", "beta_pdf"),
       Ctor("Continuous3F", "LnPdf", "Beta", "beta_ln_pdf"),
       Ctor("Continuous3F", "Cdf", "Beta", "beta_cdf"),
       Ctor("Continuous3F", "Sf", "Beta", "beta_sf") >>

\* distribution::cauchy: the constructors, in the order of the list register builds
cauchy ==
    << Ctor("Continuous3F", "Pdf", "Cauchy", "cauchy_pdf"),
       Ctor("Continuous3F", "LnPdf", "Cauchy", "cauchy_ln_pdf"),
       Ctor("Continuous3F", "Cdf", "Cauchy", "cauchy_cdf"),
       Ctor("Continuous3F", "Sf", "Cauchy", "cauchy_sf") >>

\* distribution::chi_squared: the constructors, in the order of the list register builds
chi_squared ==
    << Ctor("Continuous2F", "Pdf", "ChiSquared", "chi_squared_pdf"),
       Ctor("Continuous2F", "Cdf", "ChiSquared", "chi_squared_cdf"),
       Ctor("Continuous2F", "Sf", "ChiSquared", "chi_squared_sf") >>

\* distribution::fisher_snedecor: the constructors, in the order of the list register builds
fisher_snedecor ==
    << Ctor("Continuous3F", "Pdf", "FisherSnedecor", "fisher_snedecor_pdf"),
       Ctor("Continuous3F", "LnPdf", "FisherSnedecor", "fisher_snedecor_ln_pdf"),
       Ctor("Continuous3F", "Cdf", "FisherSnedecor", "fisher_snedecor_cdf"),
       Ctor("Continuous3F", "Sf", "FisherSnedecor", "fisher_snedecor_sf") >>

\* distribution::geometric: the constructors, in the order of the list register builds
geometric ==
    << Ctor("Discrete1U1F", "Pmf", "Geometric", "geometric_pmf"),
       Ctor("Discrete1U1F", "LnPmf", "Geometric", "geometric_ln_pmf"),
       Ctor("Discrete1U1F", "Cdf", "Geometric", "geometric_cdf"),
       Ctor("Discrete1U1F", "Sf", "Geometric", "geometric_sf") >>

\* distribution::gumbel: the constructors, in the order of the list register builds
gumbel ==
    << Ctor("Continuous3F", "Pdf", "Gumbel", "gumbel_pdf"),
       Ctor("Continuous3F", "LnPdf", "Gumbel", "gumbel_ln_pdf"),
       Ctor("Continuous3F", "Cdf", "Gumbel", "gumbel_cdf"),
       Ctor("Continuous3F", "Sf", "Gumbel", "gumbel_sf") >>

\* distribution::inverse_gamma: the constructors, in the order of the list register builds
inverse_gamma ==
    << Ctor("Continuous3F", "Pdf", "InverseGamma", "inverse_gamma_pdf"),
       Ctor("Continuous3F", "LnPdf", "InverseGamma", "inverse_gamma_ln_pdf"),
       Ctor("Continuous3F", "Cdf", "InverseGamma", "inverse_gamma_cdf"),
       Ctor("Continuous3F", "Sf", "InverseGamma", "inverse_gamma_sf") >>

\* distribution::laplace: the constructors, in the order of the list register builds
laplace ==
    << Ctor("Continuous3F", "Pdf", "Laplace", "laplace_pdf"),
       Ctor("Continuous3F", "LnPdf", "Laplace", "laplace_ln_pdf"),
       Ctor("Continuous3F", "Cdf", "Laplace", "laplace_cdf"),
       Ctor("Continuous3F", "Sf", "Laplace", "laplace_sf") >>

\* distribution::log_normal: the constructors, in the order of the list register builds
log_normal ==
    << Ctor("Continuous3F", "Pdf", "LogNormal", "log_normal_pdf"),
       Ctor("Continuous3F", "LnPdf", "LogNormal", "log_normal_ln_pdf"),
       Ctor("Continuous3F", "Cdf", "LogNormal", "log_normal_cdf"),
       Ctor("Continuous3F", "Sf", "LogNormal", "log_normal_sf") >>

\* distribution::normal: the constructors, in the order of the list register builds
normal ==
    << Ctor("Continuous3F", "Pdf", "Normal", "normal_pdf"),
       Ctor("Continuous3F", "LnPdf", "Normal", "normal_ln_pdf"),
       Ctor("Continuous3F", "Cdf", "Normal", "normal_cdf"),
       Ctor("Continuous3F", "Sf", "Normal", "normal_sf") >>

\* distribution::pareto: the constructors, in the order of the list register builds
pareto ==
    << Ctor("Continuous3F", "Pdf", "Pareto", "pareto_pdf"),
       Ctor("Continuous3F", "LnPdf", "Pareto", "pareto_ln_pdf"),
       Ctor("Continuous3F", "Cdf", "Pareto", "pareto_cdf"),
       Ctor("Continuous3F", "Sf", "Pareto", "pareto_sf") >>

\* distribution::poisson: the constructors, in the order of the list register builds
poisson ==
    << Ctor("Discrete1U1F", "Pmf", "Poisson", "poisson_pmf"),
       Ctor("Discrete1U1F", "LnPmf", "Poisson", "poisson_ln_pmf"),
       Ctor("Discrete1U1F", "Cdf", "Poisson", "poisson_cdf"),
       Ctor("Discrete1U1F", "Sf", "Poisson", "poisson_sf") >>

\* distribution::triangular: the constructors, in the order of the list register builds
triangular ==
    << Ctor("Continuous4F", "Pdf", "Triangular", "triangular_pdf"),
       Ctor("Continuous4F", "LnPdf", "Triangular", "triangular_ln_pdf"),
       Ctor("Continuous4F", "Cdf", "Triangular", "triangular_cdf"),
       Ctor("Continuous4F", "Sf", "Triangular", "triangular_sf") >>

\* distribution::weibull: the constructors, in the order of the list register builds
weibull ==
    << Ctor("Continuous3F", "Pdf", "Weibull", "weibull_pdf"),
       Ctor("Continuous3F", "LnPdf", "Weibull", "weibull_ln_pdf"),
       Ctor("Continuous3F", "Cdf", "Weibull", "weibull_cdf"),
       Ctor("Continuous3F", "Sf", "Weibull", "weibull_sf") >>

\* The calls of new() made by the constructors of module m, in the order of
\* the list its register builds.
ModuleCtors(m) ==
    CASE m = "bernoulli" -> bernoulli
      [] m = "chi" -> chi
      [] m = "dirac" -> dirac
      [] m = "erlang" -> erlang
      [] m = "exp" -> exp
      [] m = "gamma" -> gamma
      [] m = "hypergeometric" -> hypergeometric
      [] m = "negative_binomial" -> negative_binomial
      [] m = "students_t" -> students_t
      [] m = "binomial" -> binomial
      [] m = "uniform" -> uniform_
      [] m = "beta" -> beta
      [] m = "cauchy" -> cauchy
      [] m = "chi_squared" -> chi_squared
      [] m = "fisher_snedecor" -> fisher_snedecor
      [] m = "geometric" -> geometric
      [] m = "gumbel" -> gumbel
      [] m = "inverse_gamma" -> inverse_gamma
      [] m = "laplace" -> laplace
      [] m = "log_normal" -> log_normal
      [] m = "normal" -> normal
      [] m = "pareto" -> pareto
      [] m = "poisson" -> poisson
      [] m = "triangular" -> triangular
      [] m = "weibull" -> weibull

\* pdf(), cdf(), ...: ScalarUDF::from(W::<E>::new(name))
ModuleFunctions(m) ==
    [i \in 1..Len(ModuleCtors(m)) |->
        new(ModuleCtors(m)[i].W, ModuleCtors(m)[i].E, ModuleCtors(m)[i].name)]

Modules ==
    { "bernoulli", "chi", "dirac", "erlang", "exp", "gamma", "hypergeometric",
      "negative_binomial", "students_t" }

Range(s) == {s[i] : i \in 1..Len(s)}
Ctors == UNION {Range(ModuleCtors(m)) : m \in Modules}
\* The evaluator kinds of src/utils/evaluator*.rs for these wrappers.
Kinds == {"Pdf", "Pmf", "Cdf", "Sf"}
Invokable == {c \in Ctors : c.E.kind \in Kinds}

-----------------------------------------------------------------------------
(* Registration: utils::register over the host's FunctionRegistry *)

\* A function namespace of the host: function name -> installed Arc<ScalarUDF>.
EmptyRegistry == <<>>
Bound(reg) == DOMAIN reg
\* Arc::new(f): the descriptor f in an allocation of its own.
Arc(f, id) == [udf |-> f, id |-> id]
\* The error with which a registry refuses a function.
Rejection == [variant |-> "NotImplemented", payload |-> [type |-> "", kind |-> "Registering ScalarUDF"]]

\* A registry that refuses a name that is already bound.
register_udf_refuse(reg, u, accept) ==
    IF ~accept \/ name(u.udf) \in Bound(reg)
    THEN [ok |-> FALSE, reg |-> reg, existing |-> None, err |-> Rejection]
    ELSE [ok |-> TRUE,
          reg |-> [n \in Bound(reg) \cup {name(u.udf)} |->
                     IF n = name(u.udf) THEN u ELSE reg[n]],
          existing |-> None,
          err |-> NoError]

\* A registry that never returns the binding a name had before.
register_udf_silent(reg, u, accept) ==
    IF ~accept
    THEN [ok |-> FALSE, reg |-> reg, existing |-> None, err |-> Rejection]
    ELSE [ok |-> TRUE,
          reg |-> [n \in Bound(reg) \cup {name(u.udf)} |->
                     IF n = name(u.udf) THEN u ELSE reg[n]],
          existing |-> None,
          err |-> NoError]

\* A registry that keeps the binding a name already has.
register_udf_keep(reg, u, accept) ==
    IF ~accept
    THEN [ok |-> FALSE, reg |-> reg, existing |-> None, err |-> Rejection]
    ELSE [ok |-> TRUE,
          reg |-> [n \in Bound(reg) \cup {name(u.udf)} |->
                     IF n \in Bound(reg) THEN reg[n] ELSE u],
          existing |-> IF name(u.udf) \in Bound(reg)
                       THEN Some(reg[name(u.udf)]) ELSE None,
          err |-> NoError]

\* registry.register_udf(udf): the registry either refuses the function, or
\* binds it under its name and returns the binding the name had before.
register_udf(reg, u, accept) ==
    IF ~accept
    THEN [ok |-> FALSE, reg |-> reg, existing |-> None, err |-> Rejection]
    ELSE [ok |-> TRUE,
          reg |-> [n \in Bound(reg) \cup {name(u.udf)} |->
                     IF n = name(u.udf) THEN u ELSE reg[n]],
          existing |-> IF name(u.udf) \in Bound(reg)
                       THEN Some(reg[name(u.udf)]) ELSE None,
          err |-> NoError]

\* warn!("Overwrite existing UDF: {}", existing_udf.name())
warn(log, existing_udf) == Append(log, name(existing_udf.udf))

\* The closure of try_for_each on the functions from position i on: the
\* first error of the registry ends the loop and is returned.  rejectAt is
\* the position at which the registry refuses (0: it accepts them all).
RECURSIVE try_for_each(_, _, _, _, _, _)
try_for_each(reg, log, functions, i, rejectAt, callNo) ==
    IF i > Len(functions) THEN [result |-> Ok(<<>>), reg |-> reg, log |-> log]
    ELSE LET r == register_udf(reg, Arc(functions[i], <<callNo, i>>), i # rejectAt)
         IN  IF ~r.ok THEN [result |-> Err(r.err), reg |-> r.reg, log |-> log]
             ELSE try_for_each(r.reg,
                               IF IsSome(r.existing) THEN warn(log, Unwrap(r.existing))
                               ELSE log,
                               functions, i + 1, rejectAt, callNo)

\* A register that undoes what it installed when the registry refuses a
\* function.
register_atomic(reg, log, functions, rejectAt, callNo) ==
    LET r == try_for_each(reg, log, functions, 1, rejectAt, callNo)
    IN  IF r.result.ok THEN r ELSE [r EXCEPT !.reg = reg]

\* utils::register::register(registry, functions)
register(reg, log, functions, rejectAt, callNo) ==
    try_for_each(reg, log, functions, 1, rejectAt, callNo)

-----------------------------------------------------------------------------
(* Inputs: the batches the host engine may pass to a function *)

\* The plain cell: a present value that is in the domain of every parameter.
Plain == Some(1)
Special(c) == {i \in 1..Len(c) : c[i] # Plain}

\* One array per declared argument type, every array l rows long, with at
\* most k cells in all that are null or differ from the plain value.
RECURSIVE Columns(_, _, _)
Columns(types, l, k) ==
    IF types = <<>> THEN {<<>>}
    ELSE {<<Array(Head(types), c)>> \o rest :
            <<c, rest>> \in
              UNION {{cc \in [1..l -> CellsOf(Head(types))] : Cardinality(Special(cc)) = j}
                       \X Columns(Tail(types), l, k - j) : j \in 0..k}}

\* The host type-checks a call site against the advertised signature.
Batches(f, maxLen, maxSpecial) ==
    UNION {Columns(t, l, maxSpecial) :
             t \in AcceptedArgTypes(signature(f)), l \in 0..maxLen}

NumRows(args) == IF args = <<>> THEN 0 ELSE Len(args[1].cells)
Row(args, i) == [k \in 1..Len(args) |-> args[k].cells[i]]

Perms(n) == {p \in [1..n -> 1..n] : \A i, j \in 1..n : p[i] = p[j] => i = j}
\* Row i of the result is row p[i] of the input, in every column.
Permute(args, p) ==
    [k \in 1..Len(args) |->
        Array(args[k].type, [i \in 1..Len(args[k].cells) |-> args[k].cells[p[i]]])]
PermuteColumn(col, p) == [i \in 1..Len(col) |-> col[p[i]]]

-----------------------------------------------------------------------------
(* Invocation of one function object by the host, one batch at a time *)

NoCall == [made |-> FALSE, args |-> <<>>, result |-> Ok(<<>>)]
Made(args, result) == [made |-> TRUE, args |-> args, result |-> result]

\* The host's sessions, each with a function namespace of its own.
Sessions == {"s1", "s2"}
NoRegister ==
    [made |-> FALSE, session |-> "", functions |-> <<>>, rejectAt |-> 0,
     callNo |-> 0, before |-> EmptyRegistry, logged |-> 0, result |-> Ok(<<>>)]

\* The threads of the host that may be inside invoke_with_args at once.
Slots == {"a", "b"}
Idle == [pc |-> "idle", args |-> <<>>, rows |-> <<>>, i |-> 0, acc |-> <<>>,
         result |-> Ok(<<>>)]

InitInvoke ==
    /\ ctor \in Invokable
    /\ udf = new(ctor.W, ctor.E, ctor.name)
    /\ call = NoCall
    /\ prev = NoCall
    /\ inv = [s \in Slots |-> Idle]
    /\ registry = [s \in Sessions |-> EmptyRegistry]
    /\ warnings = <<>>
    /\ calls = 0
    /\ last = NoRegister

\* The host invokes udf on a batch.
Invoke(args) ==
    /\ ~call.made
    /\ call' = Made(args, invoke_with_args(udf, args))
    /\ prev' = NoCall
    /\ UNCHANGED <<ctor, udf, inv, registry, warnings, calls, last>>

\* The host invokes udf again on the rows of the latest batch, in the order p.
Reinvoke(p) ==
    /\ call.made
    /\ ~prev.made
    /\ LET args == Permute(call.args, p)
       IN  call' = Made(args, invoke_with_args(udf, args))
    /\ prev' = call
    /\ UNCHANGED <<ctor, udf, inv, registry, warnings, calls, last>>

\* The host drops the results it holds.
Drop ==
    /\ call.made
    /\ call' = NoCall
    /\ prev' = NoCall
    /\ UNCHANGED <<ctor, udf, inv, registry, warnings, calls, last>>

Next ==
    \/ ~call.made /\ \E args \in Batches(udf, MaxLen, MaxSpecial) : Invoke(args)
    \/ call.made /\ \E p \in Perms(NumRows(call.args)) : Reinvoke(p)
    \/ Drop

Spec == InitInvoke /\ [][Next]_vars

-----------------------------------------------------------------------------
(* Properties of an invocation (checked under Spec) *)

Dist == udf.E.D
Point(row) == Unwrap(row[1])
Params(row) == [k \in 1..(Len(row) - 1) |-> Unwrap(row[k + 1])]
FullyPresent(row) == \A k \in 1..Len(row) : IsSome(row[k])
ParamsPresent(row) == \A k \in 2..Len(row) : IsSome(row[k])
\* The library rejects the parameters of the row.
Rejected(row) == ~LibNew(Dist, FactoryArgs(Dist, Params(row))).ok
RowsOf(c) == 1..NumRows(c.args)
CallRow(c, i) == Row(c.args, i)

\* C1  Null propagation: on a batch in which no fully-present row has
\* out-of-domain parameters the call raises no error, every row with a null
\* in some argument position yields not-a-number at its own position, and
\* every other row yields the evaluator's value on its own values.
C1_NullPropagation ==
    (call.made /\ \A i \in RowsOf(call) :
                     FullyPresent(CallRow(call, i)) => ~Rejected(CallRow(call, i)))
    => /\ call.result.ok
       /\ Len(call.result.val) = NumRows(call.args)
       /\ \A i \in RowsOf(call) :
            IF FullyPresent(CallRow(call, i))
            THEN call.result.val[i] =
                   eval(udf.E, Point(CallRow(call, i)), Params(CallRow(call, i))).val
            ELSE call.result.val[i] = Some(NaN)

C1_Witness ==
    /\ call.made
    /\ call.result.ok
    /\ NumRows(call.args) = 2
    /\ ~FullyPresent(CallRow(call, 1))
    /\ FullyPresent(CallRow(call, 2))
    /\ call.result.val[2] # Some(NaN)

\* C2 as stated: a batch with at least one row whose parameters are out of
\* domain fails the whole call with the distribution's validation error.
C2_AnyRejectedRowFails ==
    (call.made /\ \E i \in RowsOf(call) :
                     ParamsPresent(CallRow(call, i)) /\ Rejected(CallRow(call, i)))
    => ~call.result.ok

\* C2  Validation-failure propagation, amended: a batch with at least one
\* fully-present row whose parameters are out of domain fails the whole
\* call with the validation error of such a row, and no column is returned.
C2_RejectedPresentRowFails ==
    (call.made /\ \E i \in RowsOf(call) :
                     FullyPresent(CallRow(call, i)) /\ Rejected(CallRow(call, i)))
    => /\ ~call.result.ok
       /\ call.result.val = <<>>
       /\ \E i \in RowsOf(call) :
            /\ FullyPresent(CallRow(call, i))
            /\ Rejected(CallRow(call, i))
            /\ call.result.err = External(LibNew(Dist, FactoryArgs(Dist, Params(CallRow(call, i)))).err)

C2_Witness ==
    /\ call.made
    /\ NumRows(call.args) = 2
    /\ FullyPresent(CallRow(call, 1)) /\ ~Rejected(CallRow(call, 1))
    /\ FullyPresent(CallRow(call, 2)) /\ Rejected(CallRow(call, 2))
    /\ ~call.result.ok

\* C3  Strict 1:1 map: a returned column has one row per input row, and
\* output row i is the wrapper's value on the argument values of input row i.
C3_OneToOne ==
    (call.made /\ call.result.ok)
    => /\ Len(call.result.val) = NumRows(call.args)
       /\ \A i \in RowsOf(call) :
            call.result.val[i] = map_row(udf, CallRow(call, i)).val

C3_Witness ==
    /\ call.made
    /\ call.result.ok
    /\ NumRows(call.args) = 2
    /\ FullyPresent(CallRow(call, 1))
    /\ FullyPresent(CallRow(call, 2))
    /\ call.result.val[1] # call.result.val[2]

\* C4  Order preservation: when an invocation returned a column and the same
\* rows are submitted in the order p, the invocation returns the column
\* re-ordered by p.
C4_Shuffle ==
    (prev.made /\ prev.result.ok /\ call.made)
    => \A p \in Perms(NumRows(prev.args)) :
         call.args = Permute(prev.args, p)
         => /\ call.result.ok
            /\ call.result.val = PermuteColumn(prev.result.val, p)

C4_Witness ==
    /\ prev.made /\ prev.result.ok
    /\ call.made /\ call.result.ok
    /\ call.args # prev.args
    /\ call.result.val # prev.result.val
    /\ FullyPresent(CallRow(call, 1))
    /\ FullyPresent(CallRow(call, 2))

\* The first row of the batch on which the library's constructor is called
\* and rejects the parameters.
FirstRejected(c) ==
    Min({i \in RowsOf(c) : FullyPresent(CallRow(c, i)) /\ Rejected(CallRow(c, i))})

\* C6  Error wrapping: when the library's constructor rejects the parameters
\* of a row with error e, the invocation's result is the External error
\* whose payload is exactly e (for the first such row of the batch), and an
\* invocation fails with nothing else.
C6_ErrorWrapping ==
    call.made
    => IF \E i \in RowsOf(call) :
             FullyPresent(CallRow(call, i)) /\ Rejected(CallRow(call, i))
       THEN /\ ~call.result.ok
            /\ call.result.err.variant = "External"
            /\ call.result.err.payload =
                 LibNew(Dist, FactoryArgs(Dist, Params(CallRow(call, FirstRejected(call))))).err
       ELSE call.result.ok

C6_Witness ==
    /\ call.made
    /\ ~call.result.ok
    /\ NumRows(call.args) = 2
    /\ call.result.err = External([type |-> "GammaError", kind |-> "RateInvalid"])
    /\ FullyPresent(CallRow(call, 2))
    /\ LibNew(Dist, FactoryArgs(Dist, Params(CallRow(call, 2)))).err =
         [type |-> "GammaError", kind |-> "ShapeInvalid"]

ExpectedArgTypes(W) ==
    CASE W = "Continuous2F" -> <<"Float64", "Float64">>
      [] W = "Continuous3F" -> <<"Float64", "Float64", "Float64">>
      [] W = "Continuous4F" -> <<"Float64", "Float64", "Float64", "Float64">>
      [] W = "Continuous1F1U" -> <<"Float64", "UInt64">>
      [] W = "Continuous1F1U1F" -> <<"Float64", "UInt64", "Float64">>
      [] W = "Discrete1U1F" -> <<"UInt64", "Float64">>
      [] W = "Discrete1U2F" -> <<"UInt64", "Float64", "Float64">>
      [] W = "Discrete4U" -> <<"UInt64", "UInt64", "UInt64", "UInt64">>

DataTypes == {"Float64", "UInt64", "Utf8"}
ArgTypeLists == UNION {[1..n -> DataTypes] : n \in 0..2}

\* C9  Advertised descriptor: at every moment the function object advertises
\* exactly the positional argument types of its wrapper, Immutable
\* volatility, return type Float64 for any argument types, and the name it
\* was constructed with.
C9_Descriptor ==
    /\ AcceptedArgTypes(signature(udf)) = {ExpectedArgTypes(ctor.W)}
    /\ signature(udf).volatility = "Immutable"
    /\ \A t \in ArgTypeLists : return_type(udf, t) = Ok("Float64")
    /\ name(udf) = ctor.name

C9_Witness ==
    /\ prev.made
    /\ call.made
    /\ ctor.W = "Continuous1F1U1F"
    /\ ~call.result.ok

-----------------------------------------------------------------------------
(* Registration of function lists into the sessions' namespaces *)

\* Descriptors a caller builds with the wrappers' constructors: two functions
\* under a name a module also uses, and one under a name of its own.
override_cdf == new("Continuous2F", [kind |-> "Cdf", D |-> "Exp"], "exp_pdf")
override_sf == new("Continuous2F", [kind |-> "Sf", D |-> "Exp"], "exp_pdf")
own_pdf == new("Continuous3F", [kind |-> "Pdf", D |-> "Gamma"], "my_pdf")

\* The lists passed to register: those of the modules' own register, and
\* lists a caller puts together.
RegisteredModules == {"dirac", "exp", "gamma"}
CallerLists ==
    { <<>>, <<override_cdf>>, <<override_cdf, override_sf>>,
      <<override_sf, own_pdf, override_cdf>> }
Lists == {ModuleFunctions(m) : m \in RegisteredModules} \cup CallerLists

InitReg ==
    /\ ctor = ModuleCtors("exp")[1]
    /\ udf = new(ctor.W, ctor.E, ctor.name)
    /\ call = NoCall
    /\ prev = NoCall
    /\ inv = [s \in Slots |-> Idle]
    /\ registry = [s \in Sessions |-> EmptyRegistry]
    /\ warnings = <<>>
    /\ calls = 0
    /\ last = NoRegister

\* A register that writes to one namespace shared by all the sessions.
Register_global(s, functions, rejectAt) ==
    /\ calls < MaxCalls
    /\ LET r == register(registry[s], warnings, functions, rejectAt, calls + 1)
       IN  /\ registry' = [t \in Sessions |-> r.reg]
           /\ warnings' = r.log
           /\ last' = [made |-> TRUE, session |-> s, functions |-> functions,
                       rejectAt |-> rejectAt, callNo |-> calls + 1,
                       before |-> registry[s], logged |-> Len(warnings),
                       result |-> r.result]
    /\ calls' = calls + 1
    /\ UNCHANGED <<ctor, udf, call, prev, inv>>

\* register(registry of session s, functions), with the registry refusing
\* the function at position rejectAt (0: none).
Register(s, functions, rejectAt) ==
    /\ calls < MaxCalls
    /\ LET r == register(registry[s], warnings, functions, rejectAt, calls + 1)
       IN  /\ registry' = [registry EXCEPT ![s] = r.reg]
           /\ warnings' = r.log
           /\ last' = [made |-> TRUE, session |-> s, functions |-> functions,
                       rejectAt |-> rejectAt, callNo |-> calls + 1,
                       before |-> registry[s], logged |-> Len(warnings),
                       result |-> r.result]
    /\ calls' = calls + 1
    /\ UNCHANGED <<ctor, udf, call, prev, inv>>

NextReg ==
    calls < MaxCalls /\ \E s \in Sessions, functions \in Lists :
                          \E rejectAt \in 0..Len(functions) :
                             Register(s, functions, rejectAt)

SpecReg == InitReg /\ [][NextReg]_vars

-----------------------------------------------------------------------------
(* Properties of a register call (checked under SpecReg) *)

\* The functions of the call that reached the registry and were accepted.
Attempted(l) == IF l.rejectAt = 0 THEN Len(l.functions) ELSE l.rejectAt - 1
NameAt(l, i) == name(l.functions[i])
\* The name of function i was bound when its turn came.
Overwrites(l, i) ==
    \/ NameAt(l, i) \in Bound(l.before)
    \/ \E j \in 1..(i - 1) : NameAt(l, j) = NameAt(l, i)
Overwriting(l) == {i \in 1..Attempted(l) : Overwrites(l, i)}
\* The last accepted function of the call with the name of function i.
LastNamed(l, i) ==
    CHOOSE j \in 1..Attempted(l) :
        /\ NameAt(l, j) = NameAt(l, i)
        /\ \A k \in (j + 1)..Attempted(l) : NameAt(l, k) # NameAt(l, i)
Nth(S, k) == CHOOSE i \in S : Cardinality({j \in S : j < i}) = k - 1
\* The warnings of the call.
Emitted(l) == SubSeq(warnings, l.logged + 1, Len(warnings))

\* C7  Overwrite-and-warn: every function of a register call whose name was
\* bound when it was installed replaces the binding (the name ends bound to
\* a descriptor of this call, not to the previous one), the call logs one
\* warning per such function and no other, each naming the overwritten
\* function, and the call fails only when the registry itself refused a
\* function: with duplicates and an accepting registry it returns Ok.
C7_OverwriteAndWarn ==
    last.made
    => /\ \A i \in Overwriting(last) :
            /\ NameAt(last, i) \in Bound(registry[last.session])
            /\ registry[last.session][NameAt(last, i)] =
                 Arc(last.functions[LastNamed(last, i)],
                     <<last.callNo, LastNamed(last, i)>>)
            /\ NameAt(last, i) \in Bound(last.before)
               => registry[last.session][NameAt(last, i)] # last.before[NameAt(last, i)]
       /\ Len(Emitted(last)) = Cardinality(Overwriting(last))
       /\ \A k \in 1..Len(Emitted(last)) :
            Emitted(last)[k] = NameAt(last, Nth(Overwriting(last), k))
       /\ last.result.ok <=> last.rejectAt = 0
       /\ last.result.ok => last.result = Ok(<<>>)

C7_Witness ==
    /\ last.made
    /\ last.result.ok
    /\ "exp_pdf" \in Bound(last.before)
    /\ last.before["exp_pdf"].udf = ModuleFunctions("exp")[1]
    /\ last.functions = <<override_cdf, override_sf>>
    /\ registry[last.session]["exp_pdf"].udf = override_sf
    /\ Emitted(last) = <<"exp_pdf", "exp_pdf">>

\* C8  Registration installs by declared name: after a register call that
\* returned Ok, the name of every function of the list is bound, in the
\* registry passed in, to the descriptor of this call that is last in the
\* list under that name.
C8_InstallsByName ==
    (last.made /\ last.result.ok)
    => \A i \in 1..Len(last.functions) :
         /\ NameAt(last, i) \in Bound(registry[last.session])
         /\ registry[last.session][NameAt(last, i)] =
              Arc(last.functions[LastNamed(last, i)],
                  <<last.callNo, LastNamed(last, i)>>)

C8_Witness ==
    /\ last.made
    /\ last.result.ok
    /\ last.functions = <<override_sf, own_pdf, override_cdf>>
    /\ registry[last.session]["exp_pdf"].udf = override_cdf
    /\ registry[last.session]["my_pdf"].udf = own_pdf
    /\ "exp_ln_pdf" \in Bound(registry[last.session])

\* C20  Registry isolation and frame: a register call changes only bindings
\* of the registry it was given, and of those only the ones keyed by a name
\* of a function in the list; every other binding of that registry and every
\* binding of the other sessions' registries is as it was before the call,
\* whatever the sessions registered before and in whatever order.
C20_Frame ==
    [][LET s == last'.session
           names == {name(last'.functions[i]) : i \in 1..Len(last'.functions)}
       IN  /\ \A t \in Sessions \ {s} : registry'[t] = registry[t]
           /\ Bound(registry'[s]) \subseteq Bound(registry[s]) \cup names
           /\ \A n \in Bound(registry[s]) \ names :
                /\ n \in Bound(registry'[s])
                /\ registry'[s][n] = registry[s][n]]_vars

C20_Witness ==
    /\ last.made
    /\ last.session = "s2"
    /\ "exp_cdf" \in Bound(registry["s1"])
    /\ "exp_cdf" \notin Bound(registry["s2"])
    /\ "exp_pdf" \in Bound(registry["s1"]) \cap Bound(registry["s2"])
    /\ registry["s1"]["exp_pdf"] # registry["s2"]["exp_pdf"]
    /\ "my_pdf" \in Bound(registry["s2"])

-----------------------------------------------------------------------------
(* Concurrent invocations of one function object: each thread of the host   *)
(* runs invoke_with_args on a batch of its own, one row of the iterator     *)
(* chain at a time                                                          *)

\* The modules whose first constructor is invoked concurrently: every wrapper
\* of two and of three arguments.
ConcurrentModules == Modules \ {"hypergeometric", "students_t"}

InitConc ==
    /\ ctor \in {ModuleCtors(m)[1] : m \in ConcurrentModules}
    /\ udf = new(ctor.W, ctor.E, ctor.name)
    /\ call = NoCall
    /\ prev = NoCall
    /\ inv = [s \in Slots |-> Idle]
    /\ registry = [s \in Sessions |-> EmptyRegistry]
    /\ warnings = <<>>
    /\ calls = 0
    /\ last = NoRegister

Done(args, result) ==
    [pc |-> "done", args |-> args, rows |-> <<>>, i |-> 0, acc |-> <<>>,
     result |-> result]

\* An iterator position shared by the invocations in progress.
cursor_shared(slots, s) ==
    LET busy == {t \in DOMAIN slots : slots[t].pc = "rows"}
    IN  CHOOSE i \in {slots[t].i : t \in busy} \cup {slots[s].i} :
            \A t \in busy : slots[t].i <= i

\* The position of the invocation's own iterator.
cursor(slots, s) == slots[s].i

\* An output buffer shared by the invocations in progress.
output_shared(slots, s) ==
    LET longer == {t \in DOMAIN slots :
                     slots[t].pc = "rows" /\ Len(slots[t].acc) > Len(slots[s].acc)}
    IN  IF longer = {} THEN slots[s].acc
        ELSE slots[CHOOSE t \in longer : TRUE].acc

\* The values the invocation's own collect() holds so far.
output(slots, s) == slots[s].acc

\* Thread s enters invoke_with_args: everything up to the iterator chain.
Begin(s, args) ==
    /\ inv[s].pc = "idle"
    /\ LET z == zipped(udf, args)
       IN  inv' = [inv EXCEPT ![s] =
                     IF ~z.ok THEN Done(args, Err(z.err))
                     ELSE [pc |-> "rows", args |-> args, rows |-> z.val, i |-> 1,
                           acc |-> <<>>, result |-> Ok(<<>>)]]
    /\ UNCHANGED <<ctor, udf, call, prev, registry, warnings, calls, last>>

\* Thread s pulls the next item through .map() into collect(): a value is
\* kept, an error ends the invocation, and so does the end of the rows.
Step(s) ==
    /\ inv[s].pc = "rows"
    /\ LET i == cursor(inv, s)
           r == map_row(udf, inv[s].rows[i])
       IN  inv' = [inv EXCEPT ![s] =
                     IF i > Len(inv[s].rows) THEN Done(inv[s].args, Ok(output(inv, s)))
                     ELSE IF ~r.ok THEN Done(inv[s].args, Err(r.err))
                     ELSE [inv[s] EXCEPT !.i = i + 1,
                                         !.acc = Append(output(inv, s), r.val)]]
    /\ UNCHANGED <<ctor, udf, call, prev, registry, warnings, calls, last>>

\* Thread s hands its result to the host and is free again.
Return(s) ==
    /\ inv[s].pc = "done"
    /\ inv' = [inv EXCEPT ![s] = Idle]
    /\ UNCHANGED <<ctor, udf, call, prev, registry, warnings, calls, last>>

NextConc ==
    \/ \E s \in Slots :
          inv[s].pc = "idle"
          /\ \E args \in Batches(udf, MaxConcLen, MaxConcSpecial) : Begin(s, args)
    \/ \E s \in Slots : Step(s)
    \/ \E s \in Slots : Return(s)

SpecConc == InitConc /\ [][NextConc]_vars

-----------------------------------------------------------------------------
(* Properties of concurrent invocations (checked under SpecConc) *)

C10_NoInterference ==
    \A s \in Slots :
        /\ inv[s].pc = "done" => inv[s].result = invoke_with_args(udf, inv[s].args)
        /\ inv[s].pc = "rows"
           => /\ Len(inv[s].acc) = inv[s].i - 1
              /\ \A k \in 1..Len(inv[s].acc) :
                   inv[s].acc[k] = map_row(udf, Row(inv[s].args, k)).val

C10_Witness ==
    /\ inv["a"].pc = "rows"
    /\ inv["b"].pc = "done"
    /\ inv["a"].i = 2
    /\ inv["a"].args # inv["b"].args
    /\ inv["a"].acc # <<Some(NaN)>>
    /\ ~inv["b"].result.ok

-----------------------------------------------------------------------------
(* Invocation with arguments the host did not check: invoke_with_args is a  *)
(* public method, and takes whatever ColumnarValues its caller passes       *)

OtherType(t) == IF t = "Float64" THEN "UInt64" ELSE "Float64"

\* Argument k as a scalar holding the cell c.
WithScalar(b, k, c) == [b EXCEPT ![k] = Scalar(b[k].type, c)]
\* Argument k as an array of the other type, with the same nulls.
Retyped(b, k) ==
    [b EXCEPT ![k] = Array(OtherType(b[k].type),
                           [i \in 1..Len(b[k].cells) |->
                              IF IsSome(b[k].cells[i]) THEN Plain ELSE None])]
\* Argument k one row shorter than the others.
Shortened(b, k) ==
    [b EXCEPT ![k] = Array(b[k].type, SubSeq(b[k].cells, 1, Len(b[k].cells) - 1))]
\* Every argument of a one-row batch as a scalar.
Scalars(b) == [k \in 1..Len(b) |-> Scalar(b[k].type, b[k].cells[1])]
\* The last argument left out.
Fewer(b) == SubSeq(b, 1, Len(b) - 1)
\* One more argument than declared.
More(b) == Append(b, Array("Float64", [i \in 1..NumRows(b) |-> Plain]))

\* The argument lists a caller may pass: a batch that fits the signature, or
\* one that departs from it in one argument.
DirectArgs(f, maxLen, maxSpecial) ==
    UNION { {b, Fewer(b), More(b)}
            \cup UNION {{WithScalar(b, k, c) : c \in CellsOf(b[k].type)} : k \in 1..Len(b)}
            \cup {Retyped(b, k) : k \in 1..Len(b)}
            \cup {Shortened(b, k) : k \in {j \in 1..Len(b) : NumRows(b) > 0}}
            \cup {Scalars(c) : c \in IF NumRows(b) = 1 THEN {b} ELSE {}}
          : b \in Batches(f, maxLen, maxSpecial) }

MaxDirectLen == 2
MaxDirectSpecial == 1

InitDirect ==
    /\ ctor \in {ModuleCtors(m)[1] : m \in Modules}
    /\ udf = new(ctor.W, ctor.E, ctor.name)
    /\ call = NoCall
    /\ prev = NoCall
    /\ inv = [s \in Slots |-> Idle]
    /\ registry = [s \in Sessions |-> EmptyRegistry]
    /\ warnings = <<>>
    /\ calls = 0
    /\ last = NoRegister

\* A caller invokes udf on the arguments it chose.
InvokeDirect(args) ==
    /\ ~call.made
    /\ call' = Made(args, invoke_with_args(udf, args))
    /\ prev' = NoCall
    /\ UNCHANGED <<ctor, udf, inv, registry, warnings, calls, last>>

NextDirect ==
    \/ ~call.made /\ \E args \in DirectArgs(udf, MaxDirectLen, MaxDirectSpecial) : InvokeDirect(args)
    \/ Drop

SpecDirect == InitDirect /\ [][NextDirect]_vars

-----------------------------------------------------------------------------
(* Properties of an unchecked invocation (checked under SpecDirect) *)

\* The arguments are as the signature declares them: the declared number of
\* arguments, each of its declared type, the arrays all of one length.
Conforming(f, args) ==
    /\ [k \in 1..Len(args) |-> args[k].type] \in AcceptedArgTypes(signature(f))
    /\ Cardinality({Len(args[k].cells) : k \in {j \in 1..Len(args) : args[j].kind = "Array"}}) <= 1
\* The rows of the batch once scalars are expanded.
BatchRows(args) ==
    IF \E k \in 1..Len(args) : args[k].kind = "Array"
    THEN Len(args[CHOOSE k \in 1..Len(args) : args[k].kind = "Array"].cells)
    ELSE 1
IsLibError(e) ==
    \E r \in {Exp_new(<<-1>>), Gamma_new(<<-1, 1>>), Gamma_new(<<1, -1>>),
              StudentsT_new(<<1, -1, 1>>), StudentsT_new(<<1, 1, -1>>), Chi_new(<<0>>),
              Bernoulli_new(<<-1>>), NegativeBinomial_new(<<-1, 1>>),
              NegativeBinomial_new(<<1, -1>>), Hypergeometric_new(<<0, 1, 0>>),
              Hypergeometric_new(<<0, 0, 1>>)} : e = r.err

\* C11 as stated: every invocation ends with a column or with a wrapped
\* validation error of the distribution.
C11_OnlyTwoOutcomes ==
    call.made => \/ call.result.ok
                 \/ call.result.err.variant = "External"

\* C11  Only two outcomes besides success, amended: every invocation whose
\* arguments are as the signature declares them (count, types, arrays of one
\* length, scalars allowed) ends with a complete column, one value per row,
\* or with a wrapped validation error of the distribution.
C11_ConformingTwoOutcomes ==
    (call.made /\ Conforming(udf, call.args))
    => \/ /\ call.result.ok
          /\ Len(call.result.val) = BatchRows(call.args)
       \/ /\ ~call.result.ok
          /\ call.result.err.variant = "External"
          /\ IsLibError(call.result.err.payload)

C11_Witness ==
    /\ call.made
    /\ Conforming(udf, call.args)
    /\ call.args[2].kind = "Scalar"
    /\ call.args[1].kind = "Array"
    /\ BatchRows(call.args) = 2
    /\ call.result.ok
    /\ call.result.val[2] # Some(NaN)

-----------------------------------------------------------------------------
(* Invocations on the values of the modules' examples *)

MaxExampleLen == 2

ExampleModules ==
    {"bernoulli", "binomial", "erlang", "gamma", "geometric", "hypergeometric", "uniform"}
ExampleCtors == {c \in UNION {Range(ModuleCtors(m)) : m \in ExampleModules} : c.E.kind \in Kinds}

\* Rows of values in argument order, Float64 values in quarters.
ExampleValues(D) ==
    CASE D = "Bernoulli" -> {<<x, p>> : x \in {0, 1}, p \in {-1, 0, 1, 4, 5}}
      [] D = "Binomial" -> {<<x, 3, p>> : x \in {0, 1}, p \in {-1, 0, 1, 4, 5}}
      [] D = "Erlang" -> {<<4, shape, rate>> : shape \in {0, 1}, rate \in {-5, 0, 4}}
      [] D = "Gamma" -> {<<4, shape, rate>> : shape \in {-5, 0, 4}, rate \in {-5, 0, 4}}
      [] D = "Geometric" -> {<<x, p>> : x \in {0, 5}, p \in {1, 5}}
      [] D = "Hypergeometric" ->
            {<<k>> \o t : k \in {0, 1, 5},
                          t \in {<<20, 10, 15>>, <<0, 5, 15>>, <<20, 0, 5>>,
                                 <<0, 0, 15>>, <<20, 25, 30>>}}
      [] D = "Uniform" -> {<<x>> \o t : x \in {8, 10}, t \in {<<4, 13>>, <<20, 5>>}}

\* The rows that also occur with a null in one position.
NullBase(D) ==
    CASE D = "Bernoulli" -> {<<0, 1>>, <<0, 5>>}
      [] D = "Binomial" -> {<<0, 3, 1>>, <<0, 3, 5>>}
      [] D = "Erlang" -> {<<4, 0, -5>>}
      [] D = "Gamma" -> {<<4, 0, -5>>}
      [] D = "Geometric" -> {<<0, 1>>, <<0, 5>>}
      [] D = "Hypergeometric" -> {<<5, 20, 10, 15>>, <<1, 0, 5, 15>>}
      [] D = "Uniform" -> {<<8, 4, 13>>, <<4, 20, 5>>}

Present(v) == [k \in 1..Len(v) |-> Some(v[k])]
NullAt(v, j) == [k \in 1..Len(v) |-> IF k = j THEN None ELSE Some(v[k])]
ExampleRows(D) ==
    {Present(v) : v \in ExampleValues(D)}
    \cup UNION {{NullAt(v, j) : j \in 1..Len(v)} : v \in NullBase(D)}

\* The record batch of the rows, one array per argument of f.
ToColumns(f, rows) ==
    [k \in 1..Len(CastTypes(f.W)) |->
        Array(CastTypes(f.W)[k], [i \in 1..Len(rows) |-> rows[i][k]])]
ExampleBatches(f, maxLen) ==
    UNION {{ToColumns(f, rows) : rows \in [1..l -> ExampleRows(f.E.D)]} : l \in 0..maxLen}

InitExamples ==
    /\ ctor \in ExampleCtors
    /\ udf = new(ctor.W, ctor.E, ctor.name)
    /\ call = NoCall
    /\ prev = NoCall
    /\ inv = [s \in Slots |-> Idle]
    /\ registry = [s \in Sessions |-> EmptyRegistry]
    /\ warnings = <<>>
    /\ calls = 0
    /\ last = NoRegister

\* The host invokes udf on a batch of example rows.
InvokeExample(args) ==
    /\ ~call.made
    /\ call' = Made(args, invoke_with_args(udf, args))
    /\ prev' = NoCall
    /\ UNCHANGED <<ctor, udf, inv, registry, warnings, calls, last>>

NextExamples ==
    \/ ~call.made /\ \E args \in ExampleBatches(udf, MaxExampleLen) : InvokeExample(args)
    \/ Drop

SpecExamples == InitExamples /\ [][NextExamples]_vars

-----------------------------------------------------------------------------
(* Properties of the examples (checked under SpecExamples) *)

\* The first six decimals of the fraction r.
Decimal6(r) == (r[1] * 1000000) \div r[2]
SameNumber(r, q) == r[1] * q[2] = q[1] * r[2]
\* Row i of the call is the row of values v, and the call returned an array.
ReturnedFor(i, v) == call.result.ok /\ CallRow(call, i) = Present(v)
ValueAt(i) == LibValue(Unwrap(call.result.val[i]))

\* C12  Binomial example values, arguments in the order (x, n, p): wherever
\* a returned batch holds the row (0, 3, 0.25), binomial_pmf yields 27/64 =
\* 0.421875; wherever it holds (1, 3, 0.25), binomial_cdf yields 54/64 =
\* 0.84375 and binomial_sf yields 10/64 = 0.15625.
C12_BinomialExamples ==
    (call.made /\ Dist = "Binomial")
    => \A i \in RowsOf(call) :
         /\ (name(udf) = "binomial_pmf" /\ ReturnedFor(i, <<0, 3, 1>>))
            => /\ SameNumber(ValueAt(i), <<27, 64>>)
               /\ Decimal6(ValueAt(i)) = 421875
         /\ (name(udf) = "binomial_cdf" /\ ReturnedFor(i, <<1, 3, 1>>))
            => /\ SameNumber(ValueAt(i), <<54, 64>>)
               /\ Decimal6(ValueAt(i)) = 843750
         /\ (name(udf) = "binomial_sf" /\ ReturnedFor(i, <<1, 3, 1>>))
            => /\ SameNumber(ValueAt(i), <<10, 64>>)
               /\ Decimal6(ValueAt(i)) = 156250

C12_Witness ==
    /\ call.made
    /\ name(udf) = "binomial_cdf"
    /\ NumRows(call.args) = 2
    /\ ReturnedFor(2, <<1, 3, 1>>)
    /\ SameNumber(ValueAt(2), <<54, 64>>)

\* The probability of the row, the last argument of both distributions.
Probability(row) == Unwrap(row[Len(row)])
ProbabilityInvalid == External([type |-> "BinomialError", kind |-> "ProbabilityInvalid"])

\* C13  Probability validation: a bernoulli_* or binomial_* call fails with
\* BinomialError::ProbabilityInvalid whenever a fully-present row has p
\* outside [0, 1], returns an array when every fully-present row has p in
\* [0, 1], and bernoulli_pmf(0, 0.25) is 0.75.
C13_ProbabilityValidation ==
    (call.made /\ Dist \in {"Bernoulli", "Binomial"})
    => IF \E i \in RowsOf(call) :
             /\ FullyPresent(CallRow(call, i))
             /\ (Probability(CallRow(call, i)) < 0 \/ Probability(CallRow(call, i)) > 4)
       THEN ~call.result.ok /\ call.result.err = ProbabilityInvalid
       ELSE /\ call.result.ok
            /\ \A i \in RowsOf(call) :
                 (name(udf) = "bernoulli_pmf" /\ ReturnedFor(i, <<0, 1>>))
                 => /\ SameNumber(ValueAt(i), <<3, 4>>)
                    /\ Decimal6(ValueAt(i)) = 750000

C13_Witness ==
    /\ call.made
    /\ name(udf) = "bernoulli_pmf"
    /\ NumRows(call.args) = 2
    /\ CallRow(call, 1) = Present(<<0, 1>>)
    /\ CallRow(call, 2) = Present(<<0, 5>>)
    /\ call.result.err = ProbabilityInvalid

MaxNotGreaterThanMin == External([type |-> "UniformError", kind |-> "MaxNotGreaterThanMin"])

\* C14  Uniform range validation, arguments in the order (x, min, max): a
\* uniform_* call fails with UniformError::MaxNotGreaterThanMin whenever a
\* fully-present row has min > max, and wherever a returned batch holds the
\* row (2.0, 1.0, 3.25), uniform_pdf yields 1 / (max - min) = 4/9 = 0.444444...
C14_UniformRange ==
    (call.made /\ Dist = "Uniform")
    => /\ (\E i \in RowsOf(call) :
             /\ FullyPresent(CallRow(call, i))
             /\ Unwrap(CallRow(call, i)[2]) > Unwrap(CallRow(call, i)[3]))
          => (~call.result.ok /\ call.result.err = MaxNotGreaterThanMin)
       /\ \A i \in RowsOf(call) :
            (name(udf) = "uniform_pdf" /\ ReturnedFor(i, <<8, 4, 13>>))
            => /\ SameNumber(ValueAt(i), <<4, 13 - 4>>)
               /\ Decimal6(ValueAt(i)) = 444444

C14_Witness ==
    /\ call.made
    /\ name(udf) = "uniform_pdf"
    /\ NumRows(call.args) = 2
    /\ CallRow(call, 1) = Present(<<8, 4, 13>>)
    /\ CallRow(call, 2) = Present(<<10, 20, 5>>)
    /\ call.result.err = MaxNotGreaterThanMin

ShapeInvalid == External([type |-> "GammaError", kind |-> "ShapeInvalid"])
RateInvalid == External([type |-> "GammaError", kind |-> "RateInvalid"])
Shape(row) == Unwrap(row[2])
Rate(row) == Unwrap(row[3])

\* C15 as stated: on a gamma_* or erlang_* call, any fully-present row with a
\* non-positive shape makes the batch fail with the shape-invalid kind, and
\* any fully-present row with a valid shape and a non-positive rate makes it
\* fail with the rate-invalid kind.
C15_AnyRowDecidesKind ==
    (call.made /\ Dist \in {"Gamma", "Erlang"})
    => \A i \in RowsOf(call) :
         FullyPresent(CallRow(call, i))
         => /\ Shape(CallRow(call, i)) <= 0
               => (~call.result.ok /\ call.result.err = ShapeInvalid)
            /\ (Shape(CallRow(call, i)) > 0 /\ Rate(CallRow(call, i)) <= 0)
               => (~call.result.ok /\ call.result.err = RateInvalid)

\* C15  Gamma-family error kinds: a gamma_* or erlang_* call with a
\* fully-present row of non-positive shape or rate fails, and the kind is
\* that of the first such row of the batch: shape-invalid when its shape is
\* not positive, whatever its rate, and the different rate-invalid kind when
\* its shape is valid and its rate is not positive.
C15_FirstRowDecidesKind ==
    (call.made /\ Dist \in {"Gamma", "Erlang"}
       /\ \E i \in RowsOf(call) :
            /\ FullyPresent(CallRow(call, i))
            /\ (Shape(CallRow(call, i)) <= 0 \/ Rate(CallRow(call, i)) <= 0))
    => LET first == Min({i \in RowsOf(call) :
                           /\ FullyPresent(CallRow(call, i))
                           /\ (Shape(CallRow(call, i)) <= 0 \/ Rate(CallRow(call, i)) <= 0)})
       IN  /\ ~call.result.ok
           /\ call.result.err =
                IF Shape(CallRow(call, first)) <= 0 THEN ShapeInvalid ELSE RateInvalid
           /\ ShapeInvalid # RateInvalid

C15_Witness ==
    /\ call.made
    /\ name(udf) = "gamma_pdf"
    /\ NumRows(call.args) = 2
    /\ CallRow(call, 1) = Present(<<4, 0, -5>>)
    /\ CallRow(call, 2) = Present(<<4, 4, -5>>)
    /\ call.result.err = ShapeInvalid

TooManySuccesses == External([type |-> "HypergeometricError", kind |-> "TooManySuccesses"])
Population(row) == Unwrap(row[2])
Successes(row) == Unwrap(row[3])
Draws(row) == Unwrap(row[4])
\* The fully-present rows of the call whose K or n is above N.
OutOfPopulation ==
    {i \in RowsOf(call) :
       /\ FullyPresent(CallRow(call, i))
       /\ (Successes(CallRow(call, i)) > Population(CallRow(call, i))
           \/ Draws(CallRow(call, i)) > Population(CallRow(call, i)))}

\* C16 as stated: a hypergeometric_* call fails with TooManySuccesses when
\* any fully-present row has K > N, and returns an array when every
\* fully-present row has K <= N and n <= N, with pmf(5, 20, 10, 15) =
\* 0.016253...
C16_AnyRowTooManySuccesses ==
    (call.made /\ Dist = "Hypergeometric")
    => /\ (\E i \in RowsOf(call) :
             /\ FullyPresent(CallRow(call, i))
             /\ Successes(CallRow(call, i)) > Population(CallRow(call, i)))
          => (~call.result.ok /\ call.result.err = TooManySuccesses)
       /\ OutOfPopulation = {} => call.result.ok

\* C16  Hypergeometric population check, arguments in the order (k, N, K, n):
\* a hypergeometric_* call fails with TooManySuccesses when the first
\* fully-present row of the batch with K > N or n > N has K > N, and returns
\* an array when every fully-present row has K <= N and n <= N, with
\* hypergeometric_pmf(5, 20, 10, 15) = 252/15504 = 0.016253...
C16_PopulationCheck ==
    (call.made /\ Dist = "Hypergeometric")
    => /\ (OutOfPopulation # {}
           /\ Successes(CallRow(call, Min(OutOfPopulation)))
                > Population(CallRow(call, Min(OutOfPopulation))))
          => (~call.result.ok /\ call.result.err = TooManySuccesses)
       /\ OutOfPopulation = {}
          => /\ call.result.ok
             /\ \A i \in RowsOf(call) :
                  (name(udf) = "hypergeometric_pmf" /\ ReturnedFor(i, <<5, 20, 10, 15>>))
                  => /\ SameNumber(ValueAt(i), <<252, 15504>>)
                     /\ Decimal6(ValueAt(i)) = 16253

C16_Witness ==
    /\ call.made
    /\ name(udf) = "hypergeometric_pmf"
    /\ NumRows(call.args) = 2
    /\ CallRow(call, 1) = Present(<<5, 20, 10, 15>>)
    /\ CallRow(call, 2) = Present(<<1, 0, 5, 15>>)
    /\ call.result.err = TooManySuccesses

\* hypergeometric_pmf was called on the one row v.
PmfCalledOn(v) ==
    /\ call.made
    /\ name(udf) = "hypergeometric_pmf"
    /\ NumRows(call.args) = 1
    /\ CallRow(call, 1) = Present(v)

\* C17 as stated: hypergeometric_pmf with k = 1, N = 20, K = 0, n = 5 fails
\* with the too-many-successes error.
C17_ScenarioFails ==
    PmfCalledOn(<<1, 20, 0, 5>>)
    => (~call.result.ok /\ call.result.err = TooManySuccesses)

\* C17  Hypergeometric scenario: hypergeometric_pmf with k = 1, N = 20,
\* K = 0, n = 5 returns the value 0 (K and n are within the population);
\* the call that fails with the too-many-successes error is the one with
\* k = 1, N = 0, K = 5, n = 15, and with K = 0 no population makes the call
\* fail with that error.
C17_ScenarioReturnsZero ==
    /\ PmfCalledOn(<<1, 20, 0, 5>>)
       => /\ call.result.ok
          /\ SameNumber(ValueAt(1), <<0, 1>>)
    /\ \A v \in ExampleValues("Hypergeometric") :
         (PmfCalledOn(v) /\ v[3] = 0) => call.result.err # TooManySuccesses
    /\ PmfCalledOn(<<1, 0, 5, 15>>)
       => (~call.result.ok /\ call.result.err = TooManySuccesses)

C17_Witness ==
    /\ PmfCalledOn(<<1, 20, 0, 5>>)
    /\ call.result.ok
    /\ Len(call.result.val) = 1

-----------------------------------------------------------------------------
(* The distribution modules' register functions and distribution::register *)

MaxModuleCalls == 1

\* distribution::register: the modules in the order in which it calls them.
ModuleOrder ==
    <<
      "bernoulli", "beta", "binomial", "cauchy", "chi", "chi_squared", "dirac",
      "erlang", "exp", "fisher_snedecor", "gamma", "geometric", "gumbel",
      "hypergeometric", "inverse_gamma", "laplace", "log_normal", "negative_binomial",
      "normal", "pareto", "poisson", "students_t", "triangular", "uniform", "weibull" >>
AllModules == Range(ModuleOrder)

\* The functions a module's documentation lists under Usage, for the modules
\* whose file opens with such a section.
DocumentedModules ==
    {
      "bernoulli", "beta", "binomial", "cauchy", "chi", "chi_squared", "dirac",
      "erlang", "exp", "fisher_snedecor", "gamma", "geometric", "gumbel",
      "hypergeometric", "inverse_gamma", "log_normal", "negative_binomial",
      "students_t", "weibull" }
Usage(m) ==
    CASE m = "bernoulli" ->
            {"bernoulli_pmf", "bernoulli_ln_pmf", "bernoulli_cdf", "bernoulli_sf"}
      [] m = "beta" ->
            {"beta_pdf", "beta_ln_pdf", "beta_cdf", "beta_sf"}
      [] m = "binomial" ->
            {"binomial_pmf", "binomial_ln_pmf", "binomial_cdf", "binomial_sf"}
      [] m = "cauchy" ->
            {"cauchy_pdf", "cauchy_ln_pdf", "cauchy_cdf", "cauchy_sf"}
      [] m = "chi" ->
            {"chi_pdf", "chi_cdf", "chi_sf"}
      [] m = "chi_squared" ->
            {"chi_squared_pdf", "chi_squared_cdf", "chi_squared_sf"}
      [] m = "dirac" ->
            {"dirac_cdf", "dirac_sf"}
      [] m = "erlang" ->
            {"erlang_pdf", "erlang_ln_pdf", "erlang_cdf", "erlang_sf"}
      [] m = "exp" ->
            {"exp_pdf", "exp_ln_pdf", "exp_cdf", "exp_sf"}
      [] m = "fisher_snedecor" ->
            {"fisher_snedecor_pdf", "fisher_snedecor_log_pdf", "fisher_snedecor_cdf", "fisher_snedecor_sf"}
      [] m = "gamma" ->
            {"gamma_pdf", "gamma_ln_pdf", "gamma_cdf", "gamma_sf"}
      [] m = "geometric" ->
            {"geometric_pmf", "geometric_ln_pmf", "geometric_cdf", "geometric_sf"}
      [] m = "gumbel" ->
            {"gumbel_pdf", "gumbel_ln_pdf", "gumbel_cdf", "gumbel_sf"}
      [] m = "hypergeometric" ->
            {"hypergeometric_pmf", "hypergeometric_ln_pmf", "hypergeometric_cdf", "hypergeometric_sf"}
      [] m = "inverse_gamma" ->
            {"inverse_gamma_pdf", "inverse_gamma_ln_pdf", "inverse_gamma_cdf", "inverse_gamma_sf"}
      [] m = "log_normal" ->
            {"log_normal_pdf", "log_normal_ln_pdf", "log_normal_cdf", "log_normal_sf"}
      [] m = "negative_binomial" ->
            {"negative_binomial_pmf", "negative_binomial_ln_pmf", "negative_binomial_cdf", "negative_binomial_sf"}
      [] m = "students_t" ->
            {"students_t_pdf", "students_t_ln_pdf", "students_t_cdf", "students_t_sf"}
      [] m = "weibull" ->
            {"weibull_pdf", "weibull_ln_pdf", "weibull_cdf", "weibull_sf"}

\* A namespace in which the caller has a function of their own.
OwnRegistry == [n \in {name(own_pdf)} |-> Arc(own_pdf, <<0, 0>>)]

\* <module>::register(registry): utils::register on the list of the module.
module_register(reg, log, m, rejectAt, callNo) ==
    register(reg, log, ModuleFunctions(m), rejectAt, callNo)

\* distribution::register from module k on: <module>::register(registry)?
\* per module, the first error ending the chain.  done counts the functions
\* of the modules before k, rejectAt is the position, among all functions,
\* at which the registry refuses (0: nowhere).
RECURSIVE distribution_register(_, _, _, _, _, _)
distribution_register(reg, log, k, done, rejectAt, callNo) ==
    IF k > Len(ModuleOrder) THEN [result |-> Ok(<<>>), reg |-> reg, log |-> log]
    ELSE LET n == Len(ModuleCtors(ModuleOrder[k]))
             r == module_register(reg, log, ModuleOrder[k],
                                  IF rejectAt > done /\ rejectAt <= done + n
                                  THEN rejectAt - done ELSE 0,
                                  callNo + k)
         IN  IF ~r.result.ok THEN r
             ELSE distribution_register(r.reg, r.log, k + 1, done + n, rejectAt, callNo)

RECURSIVE Flatten(_)
Flatten(ss) == IF ss = <<>> THEN <<>> ELSE Head(ss) \o Flatten(Tail(ss))
AllFunctions == Flatten([k \in 1..Len(ModuleOrder) |-> ModuleFunctions(ModuleOrder[k])])
\* Where the registry may refuse during distribution::register: nowhere,
\* inside a module, at the last function.
RejectPoints == {0, Len(AllFunctions) \div 5, Len(AllFunctions)}

InitModules ==
    /\ ctor = ModuleCtors("exp")[1]
    /\ udf = new(ctor.W, ctor.E, ctor.name)
    /\ call = NoCall
    /\ prev = NoCall
    /\ inv = [s \in Slots |-> Idle]
    /\ \E own \in {EmptyRegistry, OwnRegistry} :
          registry = [s \in Sessions |-> IF s = "s1" THEN own ELSE EmptyRegistry]
    /\ warnings = <<>>
    /\ calls = 0
    /\ last = NoRegister

\* Session s calls <m>::register on its registry.
RegisterModule(s, m, rejectAt) ==
    /\ calls < MaxModuleCalls
    /\ LET r == module_register(registry[s], warnings, m, rejectAt, 100 * (calls + 1))
       IN  /\ registry' = [registry EXCEPT ![s] = r.reg]
           /\ warnings' = r.log
           /\ last' = [made |-> TRUE, again |-> FALSE, module |-> m, session |-> s,
                       functions |-> ModuleFunctions(m), rejectAt |-> rejectAt,
                       callNo |-> calls + 1, before |-> registry[s],
                       logged |-> Len(warnings), result |-> r.result]
    /\ calls' = calls + 1
    /\ UNCHANGED <<ctor, udf, call, prev, inv>>

\* Session s calls distribution::register on its registry.
RegisterAll(s, rejectAt) ==
    /\ calls < MaxModuleCalls
    /\ LET r == distribution_register(registry[s], warnings, 1, 0, rejectAt, 100 * (calls + 1))
       IN  /\ registry' = [registry EXCEPT ![s] = r.reg]
           /\ warnings' = r.log
           /\ last' = [made |-> TRUE, again |-> FALSE, module |-> "distribution", session |-> s,
                       functions |-> AllFunctions, rejectAt |-> rejectAt,
                       callNo |-> calls + 1, before |-> registry[s],
                       logged |-> Len(warnings), result |-> r.result]
    /\ calls' = calls + 1
    /\ UNCHANGED <<ctor, udf, call, prev, inv>>

\* The session whose register call returned Ok makes the same call once
\* more on the same registry, which accepts every function.
Reregister ==
    /\ last.made
    /\ ~last.again
    /\ last.result.ok
    /\ LET s == last.session
           r == IF last.module = "distribution"
                THEN distribution_register(registry[s], warnings, 1, 0, 0, 100 * (calls + 1))
                ELSE module_register(registry[s], warnings, last.module, 0, 100 * (calls + 1))
       IN  /\ registry' = [registry EXCEPT ![s] = r.reg]
           /\ warnings' = r.log
           /\ last' = [last EXCEPT !.again = TRUE, !.callNo = calls + 1,
                                   !.before = registry[s], !.logged = Len(warnings),
                                   !.result = r.result]
    /\ calls' = calls + 1
    /\ UNCHANGED <<ctor, udf, call, prev, inv>>

NextModules ==
    \/ calls < MaxModuleCalls /\ \E s \in Sessions, m \in AllModules :
                                    \E rejectAt \in {0, 2} : RegisterModule(s, m, rejectAt)
    \/ calls < MaxModuleCalls /\ \E s \in Sessions, rejectAt \in RejectPoints :
                                    RegisterAll(s, rejectAt)
    \/ Reregister

SpecModules == InitModules /\ [][NextModules]_vars

-----------------------------------------------------------------------------
(* Properties of the modules' registration (checked under SpecModules) *)

\* The names the latest call bound in the registry it was given.
Installed ==
    {n \in Bound(registry[last.session]) :
       registry[last.session][n].id[1] \div 100 = last.callNo}

\* C18  Registered set and documentation: a <module>::register call that
\* returns Ok has installed exactly the functions the module documentation
\* lists under Usage -- for dirac dirac_cdf and dirac_sf, for chi_squared
\* chi_squared_pdf, chi_squared_cdf and chi_squared_sf, for chi chi_pdf,
\* chi_cdf and chi_sf.
C18_InstalledIsDocumented ==
    (last.made /\ last.module \in DocumentedModules /\ last.result.ok)
    => /\ Installed = Usage(last.module)
       /\ last.module = "dirac" => Installed = {"dirac_cdf", "dirac_sf"}
       /\ last.module = "chi_squared"
          => Installed = {"chi_squared_pdf", "chi_squared_cdf", "chi_squared_sf"}
       /\ last.module = "chi" => Installed = {"chi_pdf", "chi_cdf", "chi_sf"}

C18_Witness ==
    /\ last.made
    /\ last.module = "chi"
    /\ last.result.ok
    /\ Installed = {"chi_pdf", "chi_ln_pdf", "chi_cdf", "chi_sf"}
    /\ Usage("chi") = {"chi_pdf", "chi_cdf", "chi_sf"}

\* The statistic a constructor of each evaluator kind is named after.
Stat(kind) ==
    CASE kind = "Pdf" -> "pdf"
      [] kind = "LnPdf" -> "ln_pdf"
      [] kind = "Pmf" -> "pmf"
      [] kind = "LnPmf" -> "ln_pmf"
      [] kind = "Cdf" -> "cdf"
      [] kind = "Sf" -> "sf"
AllNames == {name(AllFunctions[i]) : i \in 1..Len(AllFunctions)}

-----------------------------------------------------------------------------
(* Nulls, parameters and failure in the examples (checked under SpecExamples) *)

\* C21  Validation is skipped for rows with a null: the parameters of a row
\* are validated (the evaluator is called) exactly when all its values are
\* present.  The call fails exactly when a fully-present row has rejected
\* parameters; otherwise a fully-present row yields the statistic of its
\* values and a row with a null yields not-a-number, even when its
\* parameters are present and out of domain.
C21_NullRowsNotValidated ==
    call.made
    => /\ call.result.ok
          <=> ~\E i \in RowsOf(call) :
                 FullyPresent(CallRow(call, i)) /\ Rejected(CallRow(call, i))
       /\ call.result.ok
          => \A i \in RowsOf(call) :
               call.result.val[i] =
                 IF FullyPresent(CallRow(call, i))
                 THEN Some(LibStat(Method(udf.E.kind),
                                   LibNew(Dist, FactoryArgs(Dist, Params(CallRow(call, i)))).val,
                                   Point(CallRow(call, i))))
                 ELSE Some(NaN)

C21_Witness ==
    /\ call.made
    /\ name(udf) = "bernoulli_pmf"
    /\ NumRows(call.args) = 2
    /\ CallRow(call, 1) = <<None, Some(5)>>
    /\ CallRow(call, 2) = Present(<<0, 1>>)
    /\ call.result.ok
    /\ call.result.val[1] = Some(NaN)

\* The evaluation points of the examples of D.
Points(D) == {v[1] : v \in ExampleValues(D)}
\* The batch with every present evaluation point replaced by x.
AtPoint(args, x) ==
    [args EXCEPT ![1] =
        Array(args[1].type,
              [i \in 1..Len(args[1].cells) |->
                  IF IsSome(args[1].cells[i]) THEN Some(x) ELSE None])]

\* C23  Failure depends on the parameters only: a call fails exactly when
\* the same call with every present evaluation point replaced by any other
\* point fails, and then with the same error; a fully-present row with
\* accepted parameters never fails, whatever its point; geometric_pmf(0,
\* 0.25), whose point is below the documented domain, returns 0.0.
C23_FailureFromParametersOnly ==
    call.made
    => /\ \A x \in Points(Dist) :
            LET other == invoke_with_args(udf, AtPoint(call.args, x))
            IN  /\ other.ok <=> call.result.ok
                /\ ~call.result.ok => other.err = call.result.err
       /\ \A i \in RowsOf(call) :
            (FullyPresent(CallRow(call, i)) /\ ~Rejected(CallRow(call, i)))
            => eval(udf.E, Point(CallRow(call, i)), Params(CallRow(call, i))).ok
       /\ \A i \in RowsOf(call) :
            (name(udf) = "geometric_pmf" /\ CallRow(call, i) = Present(<<0, 1>>)
             /\ call.result.ok)
            => SameNumber(ValueAt(i), <<0, 1>>)

C23_Witness ==
    /\ call.made
    /\ name(udf) = "geometric_pmf"
    /\ NumRows(call.args) = 2
    /\ CallRow(call, 1) = Present(<<0, 1>>)
    /\ CallRow(call, 2) = Present(<<5, 1>>)
    /\ call.result.ok
    /\ SameNumber(ValueAt(1), <<0, 1>>)
    /\ SameNumber(ValueAt(2), <<81, 1024>>)

-----------------------------------------------------------------------------
(* Failure and repetition of a registration (checked under SpecModules) *)

\* The module whose register installs function i of distribution::register.
RECURSIVE ModuleAt(_, _)
ModuleAt(i, k) ==
    IF i <= Len(ModuleCtors(ModuleOrder[k])) THEN k
    ELSE ModuleAt(i - Len(ModuleCtors(ModuleOrder[k])), k + 1)
\* Every function of module k is bound to a descriptor of the latest call.
ModuleInstalled(k) ==
    \A c \in Range(ModuleCtors(ModuleOrder[k])) : c.name \in Installed
\* No function of module k has been touched by the latest call.
ModuleUntouched(k) ==
    \A c \in Range(ModuleCtors(ModuleOrder[k])) :
        /\ c.name \notin Installed
        /\ c.name \in Bound(registry[last.session]) <=> c.name \in Bound(last.before)

\* C27  Registration is not atomic on failure: when the registry refuses
\* function i of the list, register returns that error, the functions before
\* i are bound to this call's descriptors, and function i and those after it
\* were never attempted, their names left as they were; distribution::register
\* stops at the first failing module, the modules before it fully installed
\* and the modules after it untouched.
C27_NotAtomic ==
    (last.made /\ last.rejectAt # 0)
    => /\ last.result = Err(Rejection)
       /\ \A i \in 1..Len(last.functions) :
            IF i < last.rejectAt
            THEN /\ NameAt(last, i) \in Installed
                 /\ registry[last.session][NameAt(last, i)].udf = last.functions[i]
            ELSE /\ NameAt(last, i) \notin Installed
                 /\ NameAt(last, i) \in Bound(registry[last.session])
                    <=> NameAt(last, i) \in Bound(last.before)
       /\ \A n \in Bound(last.before) :
            n \notin Installed => registry[last.session][n] = last.before[n]
       /\ Bound(registry[last.session]) = Bound(last.before) \cup Installed
       /\ last.module = "distribution"
          => \A k \in 1..Len(ModuleOrder) :
               /\ k < ModuleAt(last.rejectAt, 1) => ModuleInstalled(k)
               /\ k > ModuleAt(last.rejectAt, 1) => ModuleUntouched(k)

C27_Witness ==
    /\ last.made
    /\ last.module = "distribution"
    /\ ~last.result.ok
    /\ NameAt(last, last.rejectAt) = "chi_cdf"
    /\ {"bernoulli_pmf", "cauchy_sf", "chi_pdf", "chi_ln_pdf"} \subseteq Installed
    /\ "chi_cdf" \notin Bound(registry[last.session])
    /\ "weibull_pdf" \notin Bound(registry[last.session])

\* C28  Re-registration is idempotent on the name set: when the register
\* call of a module, or distribution::register, that returned Ok is made
\* again on the same registry, it returns Ok, the set of bound names is
\* unchanged, every name of the list is bound to a newly constructed
\* descriptor equal to the one it replaces, and exactly one overwrite
\* warning is logged per function: four for binomial, two for dirac.
C28_Idempotent ==
    (last.made /\ last.again)
    => /\ last.result = Ok(<<>>)
       /\ Bound(registry[last.session]) = Bound(last.before)
       /\ \A i \in 1..Len(last.functions) :
            /\ NameAt(last, i) \in Installed
            /\ registry[last.session][NameAt(last, i)].udf
                 = last.before[NameAt(last, i)].udf
            /\ registry[last.session][NameAt(last, i)].id
                 # last.before[NameAt(last, i)].id
            /\ Cardinality({k \in 1..Len(Emitted(last)) :
                              Emitted(last)[k] = NameAt(last, i)}) = 1
       /\ \A n \in Bound(last.before) :
            n \notin Installed => registry[last.session][n] = last.before[n]
       /\ Len(Emitted(last)) = Len(last.functions)
       /\ last.module = "binomial" => Len(Emitted(last)) = 4
       /\ last.module = "dirac" => Len(Emitted(last)) = 2

C28_Witness ==
    /\ last.made
    /\ last.again
    /\ last.module = "binomial"
    /\ last.result.ok
    /\ Emitted(last) = <<"binomial_pmf", "binomial_ln_pmf", "binomial_cdf", "binomial_sf">>
    /\ name(own_pdf) \in Bound(registry[last.session])
    /\ registry[last.session]["binomial_pmf"].id # last.before["binomial_pmf"].id

-----------------------------------------------------------------------------
(* Further properties of an invocation (checked under Spec) *)

\* C26  No nulls in the output: every cell of a returned column holds a
\* value, one cell per input row; the rows with a null input hold
\* not-a-number, and the other rows hold the library's value.
C26_NoNullOutput ==
    (call.made /\ call.result.ok)
    => /\ Len(call.result.val) = NumRows(call.args)
       /\ \A i \in RowsOf(call) :
            /\ IsSome(call.result.val[i])
            /\ ~FullyPresent(CallRow(call, i)) => call.result.val[i] = Some(NaN)

C26_Witness ==
    /\ call.made
    /\ name(udf) = "dirac_cdf"
    /\ NumRows(call.args) = 2
    /\ ~IsSome(CallRow(call, 1)[1])
    /\ FullyPresent(CallRow(call, 2))
    /\ call.result.ok
    /\ call.result.val[1] = Some(NaN)
    /\ IsSome(call.result.val[2])
    /\ call.result.val[2] # Some(NaN)

-----------------------------------------------------------------------------
(* Further properties of an unchecked invocation (checked under SpecDirect) *)

\* The invocation gets as far as the length assertions: the conversion to
\* arrays succeeds, there is an array for every cast and every cast succeeds.
ReachesAssertions(f, args) ==
    LET a == values_to_arrays(args)
    IN  /\ a.ok
        /\ Len(a.val) >= Len(CastTypes(f.W))
        /\ \A k \in 1..Len(CastTypes(f.W)) : a.val[k].type = CastTypes(f.W)[k]

\* C24  The length assertions always hold: an invocation that gets as far
\* as the assert_eq! lines finds every parameter array as long as the array
\* of evaluation points, so no invocation ends with a failed assertion.
C24_LengthAssertionsHold ==
    call.made
    => /\ call.result # Panic("assertion failed")
       /\ ReachesAssertions(udf, call.args)
          => \A k \in 2..Len(CastTypes(udf.W)) :
               Len(values_to_arrays(call.args).val[k].cells)
                 = Len(values_to_arrays(call.args).val[1].cells)

C24_Witness ==
    /\ call.made
    /\ ReachesAssertions(udf, call.args)
    /\ call.args[1].kind = "Array"
    /\ Len(call.args[1].cells) = 2
    /\ call.args[2].kind = "Scalar"
    /\ call.result.ok
    /\ Len(call.result.val) = 2

\* The arguments with every scalar written out as a column that repeats
\* its value on each row of the batch.
Repeated(args) ==
    [k \in 1..Len(args) |->
        IF args[k].kind = "Array" THEN args[k]
        ELSE Array(args[k].type, [i \in 1..BatchRows(args) |-> args[k].cells[1]])]
ScalarArgs(args) == {k \in 1..Len(args) : args[k].kind = "Scalar"}

\* C25  Scalar broadcasting: a call whose arguments fit the signature and
\* include scalars returns what the same call returns with each scalar
\* written out as a column repeating its value on every row; a call whose
\* arguments are all scalars is evaluated as one row.
C25_ScalarBroadcast ==
    (call.made /\ Conforming(udf, call.args) /\ ScalarArgs(call.args) # {})
    => /\ call.result = invoke_with_args(udf, Repeated(call.args))
       /\ (ScalarArgs(call.args) = 1..Len(call.args) /\ call.result.ok)
          => Len(call.result.val) = 1

C25_Witness ==
    /\ call.made
    /\ Conforming(udf, call.args)
    /\ ScalarArgs(call.args) = {2}
    /\ BatchRows(call.args) = 2
    /\ call.result.ok
    /\ Len(call.result.val) = 2
    /\ call.result.val[2] # Some(NaN)

-----------------------------------------------------------------------------
(* Wiring of names, evaluators and factories (checked under SpecExamples) *)

\* use statrs::distribution::<D>: the library distribution of module m.
Imports(m) ==
    CASE m = "bernoulli" -> "Bernoulli"
      [] m = "beta" -> "Beta"
      [] m = "binomial" -> "Binomial"
      [] m = "cauchy" -> "Cauchy"
      [] m = "chi" -> "Chi"
      [] m = "chi_squared" -> "ChiSquared"
      [] m = "dirac" -> "Dirac"
      [] m = "erlang" -> "Erlang"
      [] m = "exp" -> "Exp"
      [] m = "fisher_snedecor" -> "FisherSnedecor"
      [] m = "gamma" -> "Gamma"
      [] m = "geometric" -> "Geometric"
      [] m = "gumbel" -> "Gumbel"
      [] m = "hypergeometric" -> "Hypergeometric"
      [] m = "inverse_gamma" -> "InverseGamma"
      [] m = "laplace" -> "Laplace"
      [] m = "log_normal" -> "LogNormal"
      [] m = "negative_binomial" -> "NegativeBinomial"
      [] m = "normal" -> "Normal"
      [] m = "pareto" -> "Pareto"
      [] m = "poisson" -> "Poisson"
      [] m = "students_t" -> "StudentsT"
      [] m = "triangular" -> "Triangular"
      [] m = "uniform" -> "Uniform"
      [] m = "weibull" -> "Weibull"

\* The arguments of the library constructor as the documentation of the
\* function gives them: Binomial::new(p, n) for binomial_*(x, n, p), the
\* parameters in their SQL order for the other distributions.
DocumentedArgs(D, row) ==
    IF D = "Binomial" THEN <<Unwrap(row[3]), Unwrap(row[2])>>
    ELSE [k \in 1..(Len(row) - 1) |-> Unwrap(row[k + 1])]
\* The module of the function under call.
ModuleOfCall == CHOOSE m \in ExampleModules : \E c \in Range(ModuleCtors(m)) : c.name = name(udf)

-----------------------------------------------------------------------------
(* One invocation, row by row: the iterator chain of invoke_with_args *)

MaxRowsLen == 2

\* The modules whose first constructor is stepped through.
RowModules == {"bernoulli", "erlang", "gamma", "hypergeometric"}

\* The invocation at the head of the iterator chain; evals lists the rows
\* for which the evaluator has been called, in the order of the calls.
AtRows(args, rows) ==
    [pc |-> "rows", args |-> args, rows |-> rows, i |-> 1, acc |-> <<>>,
     result |-> Ok(<<>>), evals |-> <<>>]

\* An iterator chain that notes a failing row and goes on to the rows after
\* it, returning the error noted last.
pull_past_error(f, st) ==
    IF st.i > Len(st.rows)
    THEN [st EXCEPT !.pc = "done",
                    !.result = IF st.result.ok THEN Ok(st.acc) ELSE st.result]
    ELSE LET row == st.rows[st.i]
             r == map_row(f, row)
             evals == IF \A k \in 1..Len(row) : IsSome(row[k])
                      THEN Append(st.evals, st.i) ELSE st.evals
         IN  IF ~r.ok
             THEN [st EXCEPT !.i = st.i + 1, !.acc = Append(st.acc, Some(NaN)),
                             !.result = Err(r.err), !.evals = evals]
             ELSE [st EXCEPT !.i = st.i + 1, !.acc = Append(st.acc, r.val),
                             !.evals = evals]

\* collect() pulls one item through zip and map: past the last row it
\* returns the array; otherwise the closure runs on row i (calling the
\* evaluator when all its values are present), an error ends the chain at
\* once and a value is kept.
pull(f, st) ==
    IF st.i > Len(st.rows) THEN [st EXCEPT !.pc = "done", !.result = Ok(st.acc)]
    ELSE LET row == st.rows[st.i]
             r == map_row(f, row)
             evals == IF \A k \in 1..Len(row) : IsSome(row[k])
                      THEN Append(st.evals, st.i) ELSE st.evals
         IN  IF ~r.ok
             THEN [st EXCEPT !.pc = "done", !.result = Err(r.err), !.evals = evals]
             ELSE [st EXCEPT !.i = st.i + 1, !.acc = Append(st.acc, r.val),
                             !.evals = evals]

InitRows ==
    /\ ctor \in {ModuleCtors(m)[1] : m \in RowModules}
    /\ udf = new(ctor.W, ctor.E, ctor.name)
    /\ call = NoCall
    /\ prev = NoCall
    /\ inv = [s \in Slots |-> Idle]
    /\ registry = [s \in Sessions |-> EmptyRegistry]
    /\ warnings = <<>>
    /\ calls = 0
    /\ last = NoRegister

\* The host enters invoke_with_args: everything up to the iterator chain.
BeginRows(args) ==
    /\ inv["a"].pc = "idle"
    /\ LET z == zipped(udf, args)
       IN  inv' = [inv EXCEPT !["a"] =
                     IF ~z.ok THEN [AtRows(args, <<>>) EXCEPT !.pc = "done",
                                                              !.result = Err(z.err)]
                     ELSE AtRows(args, z.val)]
    /\ UNCHANGED <<ctor, udf, call, prev, registry, warnings, calls, last>>

NextRow ==
    /\ inv["a"].pc = "rows"
    /\ inv' = [inv EXCEPT !["a"] = pull(udf, inv["a"])]
    /\ UNCHANGED <<ctor, udf, call, prev, registry, warnings, calls, last>>

\* invoke_with_args returns to the host.
ReturnRows ==
    /\ inv["a"].pc = "done"
    /\ inv' = [inv EXCEPT !["a"] = Idle]
    /\ UNCHANGED <<ctor, udf, call, prev, registry, warnings, calls, last>>

NextRows ==
    \/ inv["a"].pc = "idle"
       /\ \E args \in ExampleBatches(udf, MaxRowsLen) : BeginRows(args)
    \/ NextRow
    \/ ReturnRows

\* The chain runs inside one synchronous call: a pull that can be made is made.
SpecRows == InitRows /\ [][NextRows]_vars /\ WF_vars(NextRow)

-----------------------------------------------------------------------------
(* Properties of the row loop (checked under SpecRows) *)

\* The fully-present rows of the invocation whose parameters are rejected.
Failing(st) ==
    {k \in 1..Len(st.rows) : FullyPresent(st.rows[k]) /\ Rejected(st.rows[k])}
\* The rows the invocation has gone through: those before the cursor, up to
\* and including the first failing row once it has ended.
Visited(st) ==
    IF st.pc = "rows" THEN 1..(st.i - 1)
    ELSE IF Failing(st) = {} THEN 1..Len(st.rows)
    ELSE 1..Min(Failing(st))

C22_Order ==
    LET st == inv["a"]
    IN  st.pc \in {"rows", "done"}
        => /\ \A k \in 1..(Len(st.evals) - 1) : st.evals[k] < st.evals[k + 1]
           /\ Range(st.evals) = {k \in Visited(st) : FullyPresent(st.rows[k])}
           /\ Len(st.evals) <= Len(st.rows)
           /\ st.pc = "rows" => Failing(st) \cap Visited(st) = {}
           /\ st.pc = "done"
              => st.result =
                   IF Failing(st) = {} THEN Ok(st.acc)
                   ELSE Err(External(LibNew(Dist, FactoryArgs(Dist,
                              Params(st.rows[Min(Failing(st))]))).err))
           /\ (st.pc = "done" /\ Failing(st) = {}) => Len(st.acc) = Len(st.rows)

\* C22  Row order and first failure: an invocation calls the evaluator on
\* the fully-present rows in increasing index order, at most once per row
\* and at most len times; it always ends; when fully-present rows have
\* rejected parameters it ends with the error of the lowest-index one and
\* has evaluated no row after it.
C22_RowOrderFirstFailure ==
    /\ []C22_Order
    /\ (inv["a"].pc = "rows") ~> (inv["a"].pc = "done")

C22_Witness ==
    /\ inv["a"].pc = "done"
    /\ name(udf) = "gamma_pdf"
    /\ Len(inv["a"].rows) = 2
    /\ inv["a"].rows[1] = Present(<<4, 4, -5>>)
    /\ inv["a"].rows[2] = Present(<<4, 0, 4>>)
    /\ inv["a"].result = Err(RateInvalid)
    /\ inv["a"].evals = <<1>>

====
